---- MODULE Spec2Model ----
(***************************************************************************)
(* State-machine model of the hfjscli transfer client (HFClient in         *)
(* src/src/client/hf-client.ts): the retry executor, single-file upload,   *)
(* batched multi-file upload, streaming download and repository probe.     *)
(*                                                                         *)
(* Strings are sequences of one-character strings, so that trim() and      *)
(* includes() are computed, not assumed.  Local files are numbered; file i *)
(* has the path "f<i>" (PathName), except file 2, which is "sub/f1"; 0 is  *)
(* the empty path and -1 a blank one.                                      *)
(***************************************************************************)
EXTENDS Integers, Sequences, FiniteSets, TLC

(***************************************************************************)
(* Bounds of the model (not program constants).                            *)
(***************************************************************************)
MaxRetriesBound == 2      \* retryConfig.maxRetries ranges over 0..MaxRetriesBound
MaxFullBatches == 1       \* file lists hold up to MaxFullBatches full batches plus a rest
MaxChunks == 2            \* chunks a download stream delivers at most
MaxMatched == 3            \* paths a glob pattern matches at most
MaxAuthOps == 3            \* operations on one AuthManager
MaxGroupFiles == 5         \* files given to BatchManager.processBatches at most

(***************************************************************************)
(* Program constants.                                                      *)
(***************************************************************************)
batchSize == 1000
baseDelay == 1000
maxDelay == 10000
JitterRange == 1000

(***************************************************************************)
(* Option values: `undefined` is the empty set, a present value {v}.       *)
(***************************************************************************)
None == {}
Some(v) == {v}
The(o) == CHOOSE v \in o : TRUE

(***************************************************************************)
(* Strings.                                                                *)
(***************************************************************************)
Includes(s, sub) ==
    \E i \in 0..(Len(s) - Len(sub)) : SubSeq(s, i + 1, i + Len(sub)) = sub

RECURSIVE TrimStart(_)
TrimStart(s) ==
    IF s # <<>> /\ Head(s) = " " THEN TrimStart(Tail(s)) ELSE s

RECURSIVE TrimEnd(_)
TrimEnd(s) ==
    IF s # <<>> /\ s[Len(s)] = " " THEN TrimEnd(SubSeq(s, 1, Len(s) - 1)) ELSE s

Trim(s) == TrimEnd(TrimStart(s))

DigitChar(d) == <<"0", "1", "2", "3", "4", "5", "6", "7", "8", "9">>[d + 1]

RECURSIVE Decimal(_)
Decimal(n) ==
    IF n < 10 THEN <<DigitChar(n)>> ELSE Decimal(n \div 10) \o <<DigitChar(n % 10)>>

\* The local file that lies in a subdirectory: it has the name of the file
\* numbered before it.
NestedFile == 2

PathName(p) ==
    IF p = 0 THEN <<>>
    ELSE IF p < 0 THEN <<" ">>
    ELSE IF p = NestedFile THEN <<"s", "u", "b", "/", "f">> \o Decimal(p - 1)
    ELSE <<"f">> \o Decimal(p)

\* path.basename(p) for a path without a trailing separator: what follows the
\* last "/".
basename(s) ==
    LET slashes == {i \in 1..Len(s) : s[i] = "/"} IN
    IF slashes = {} THEN s
    ELSE SubSeq(s, (CHOOSE i \in slashes : \A j \in slashes : j <= i) + 1, Len(s))

Str401 == <<"4", "0", "1">>
Str403 == <<"4", "0", "3">>
Str400 == <<"4", "0", "0">>
Str422 == <<"4", "2", "2">>
Str404 == <<"4", "0", "4">>
Str429 == <<"4", "2", "9">>
StrAuthentication == <<"a", "u", "t", "h", "e", "n", "t", "i", "c", "a", "t", "i", "o", "n">>
StrRateLimit == <<"r", "a", "t", "e", " ", "l", "i", "m", "i", "t">>
StrENOENT == <<"E", "N", "O", "E", "N", "T">>
StrEACCES == <<"E", "A", "C", "C", "E", "S">>

\* Messages of the failures the remote hub and the filesystem raise.
MsgUnauthorized == <<"4", "0", "1", " ", "U", "n", "a", "u", "t", "h", "o", "r", "i", "z", "e", "d">>
MsgForbidden == <<"4", "0", "3", " ", "F", "o", "r", "b", "i", "d", "d", "e", "n">>
MsgBadRequest == <<"4", "0", "0", " ", "B", "a", "d", " ", "R", "e", "q", "u", "e", "s", "t">>
MsgUnprocessable == <<"4", "2", "2", " ", "U", "n", "p", "r", "o", "c", "e", "s", "s", "a", "b", "l", "e">>
MsgNotFound == <<"4", "0", "4", " ", "N", "o", "t", " ", "F", "o", "u", "n", "d">>
MsgTooMany == <<"4", "2", "9", " ", "T", "o", "o", " ", "M", "a", "n", "y">>
MsgServer == <<"5", "0", "0", " ", "S", "e", "r", "v", "e", "r">>
MsgReset == <<"E", "C", "O", "N", "N", "R", "E", "S", "E", "T">>
MsgNoEntry == <<"E", "N", "O", "E", "N", "T", ":", " ", "s", "t", "a", "t">>
MsgDenied == <<"E", "A", "C", "C", "E", "S", ":", " ", "m", "k", "d", "i", "r">>
MsgAborted == <<"a", "b", "o", "r", "t", "e", "d">>
\* Messages that carry the marks of two categories.
MsgNotFoundAuth == <<"4", "0", "4", ":", " ", "a", "u", "t", "h", "e", "n", "t", "i", "c", "a", "t", "i", "o", "n">>
MsgNotFoundRate == <<"4", "0", "4", ":", " ", "r", "a", "t", "e", " ", "l", "i", "m", "i", "t">>
MsgRateDenied == <<"4", "2", "9", ":", " ", "E", "A", "C", "C", "E", "S">>
MsgAuthWord == <<"a", "u", "t", "h", "e", "n", "t", "i", "c", "a", "t", "i", "o", "n", " ", "r", "e", "q", "u", "i", "r", "e", "d">>
MsgTypeError == <<"C", "a", "n", "n", "o", "t", " ", "r", "e", "a", "d", " ", "p", "r", "o", "p", "e", "r", "t", "i", "e", "s">>

\* Messages the client itself writes.
MsgNoResponse == <<"D", "o", "w", "n", "l", "o", "a", "d", " ", "f", "a", "i", "l", "e", "d", ":", " ", "N", "o", " ", "r", "e", "s", "p", "o", "n", "s", "e", " ", "r", "e", "c", "e", "i", "v", "e", "d">>
MsgRepoRequired == <<"R", "e", "p", "o", "s", "i", "t", "o", "r", "y", " ", "I", "D", " ", "i", "s", " ", "r", "e", "q", "u", "i", "r", "e", "d">>
MsgPathRequired == <<"F", "i", "l", "e", " ", "p", "a", "t", "h", " ", "i", "s", " ", "r", "e", "q", "u", "i", "r", "e", "d">>
MsgPathsRequired == <<"A", "t", " ", "l", "e", "a", "s", "t", " ", "o", "n", "e", " ", "f", "i", "l", "e", " ", "p", "a", "t", "h", " ", "i", "s", " ", "r", "e", "q", "u", "i", "r", "e", "d">>
MsgPathEmpty == <<"F", "i", "l", "e", " ", "p", "a", "t", "h", " ", "c", "a", "n", "n", "o", "t", " ", "b", "e", " ", "e", "m", "p", "t", "y">>
MsgBadType == <<"I", "n", "v", "a", "l", "i", "d", " ", "r", "e", "p", "o", "s", "i", "t", "o", "r", "y", " ", "t", "y", "p", "e", ":", " ">>
MsgLocalMissing == <<"L", "o", "c", "a", "l", " ", "f", "i", "l", "e", " ", "n", "o", "t", " ", "f", "o", "u", "n", "d", ":", " ">>
MsgNetPrefix == <<"N", "e", "t", "w", "o", "r", "k", " ", "o", "r", " ", "A", "P", "I", " ", "e", "r", "r", "o", "r", ":", " ">>
MsgAuthFailed == <<"A", "u", "t", "h", "e", "n", "t", "i", "c", "a", "t", "i", "o", "n", " ", "f", "a", "i", "l", "e", "d">>
MsgRepoOrFile == <<"R", "e", "p", "o", "s", "i", "t", "o", "r", "y", " ", "o", "r", " ", "f", "i", "l", "e", " ", "n", "o", "t", " ", "f", "o", "u", "n", "d">>
MsgRateExceeded == <<"R", "a", "t", "e", " ", "l", "i", "m", "i", "t", " ", "e", "x", "c", "e", "e", "d", "e", "d">>
MsgFsPermission == <<"F", "i", "l", "e", " ", "s", "y", "s", "t", "e", "m", " ", "p", "e", "r", "m", "i", "s", "s", "i", "o", "n", " ", "e", "r", "r", "o", "r">>

TypeModel == <<"m", "o", "d", "e", "l">>
TypeDataset == <<"d", "a", "t", "a", "s", "e", "t">>
TypeSpace == <<"s", "p", "a", "c", "e">>
TypeBogus == <<"b", "o", "g", "u", "s">>

RepoOwnerName == <<"o", "/", "n">>
RepoBare == <<"n">>
RepoBlank == <<" ", " ">>
RepoEmpty == <<>>

(***************************************************************************)
(* Errors.  A thrown value is either an Error instance (isError) or the    *)
(* plain object createError builds, which carries a type.                  *)
(***************************************************************************)
JsError(msg) == [isError |-> TRUE, hasType |-> FALSE, type |-> "none", message |-> msg]

createError(type, message) ==
    [isError |-> FALSE, hasType |-> TRUE, type |-> type, message |-> message]

NoError == [isError |-> FALSE, hasType |-> FALSE, type |-> "none", message |-> <<>>]

\* Variant: a 404 is retried like a network error.
shouldNotRetryRetries404(error) ==
    \/ Includes(error.message, Str401) \/ Includes(error.message, Str403)
    \/ Includes(error.message, Str400) \/ Includes(error.message, Str422)

\* Variant: a message with the word "authentication" is terminal as well.
shouldNotRetryAuthWord(error) ==
    \/ Includes(error.message, Str401) \/ Includes(error.message, Str403)
    \/ Includes(error.message, Str400) \/ Includes(error.message, Str422)
    \/ Includes(error.message, Str404)
    \/ Includes(error.message, StrAuthentication)

shouldNotRetry(error) ==
    \/ Includes(error.message, Str401) \/ Includes(error.message, Str403)
    \/ Includes(error.message, Str400) \/ Includes(error.message, Str422)
    \/ Includes(error.message, Str404)

\* Variant: the 404 test comes before the authentication test.
handleErrorNotFoundFirst(error) ==
    IF error.isError /\ error.hasType THEN error
    ELSE LET message == error.message IN
         IF Includes(message, Str404)
           THEN createError("file_not_found", MsgRepoOrFile)
         ELSE IF \/ Includes(message, Str401) \/ Includes(message, Str403)
                 \/ Includes(message, StrAuthentication)
           THEN createError("auth_error", MsgAuthFailed)
         ELSE IF Includes(message, Str429) \/ Includes(message, StrRateLimit)
           THEN createError("rate_limit_error", MsgRateExceeded)
         ELSE IF Includes(message, StrENOENT) \/ Includes(message, StrEACCES)
           THEN createError("permission_error", MsgFsPermission)
         ELSE createError("network_error", MsgNetPrefix \o message)

handleError(error) ==
    IF error.isError /\ error.hasType THEN error
    ELSE LET message == error.message IN
         IF \/ Includes(message, Str401) \/ Includes(message, Str403)
            \/ Includes(message, StrAuthentication)
           THEN createError("auth_error", MsgAuthFailed)
         ELSE IF Includes(message, Str404)
           THEN createError("file_not_found", MsgRepoOrFile)
         ELSE IF Includes(message, Str429) \/ Includes(message, StrRateLimit)
           THEN createError("rate_limit_error", MsgRateExceeded)
         ELSE IF Includes(message, StrENOENT) \/ Includes(message, StrEACCES)
           THEN createError("permission_error", MsgFsPermission)
         ELSE createError("network_error", MsgNetPrefix \o message)

isValidRepoType(repoType) == repoType \in {TypeModel, TypeDataset, TypeSpace}

UrlHost == <<"h", "t", "t", "p", "s", ":", "/", "/", "h", "u", "g", "g", "i", "n", "g", "f", "a", "c", "e", ".", "c", "o", "/">>
UrlBlobMain == <<"/", "b", "l", "o", "b", "/", "m", "a", "i", "n", "/">>

(***************************************************************************)
(* Inputs.                                                                 *)
(***************************************************************************)
RepoIds == {RepoEmpty, RepoBlank, RepoBare, RepoOwnerName}
RepoTypes == {TypeModel, TypeDataset, TypeSpace, TypeBogus}
SinglePaths == {0, -1, 1}
\* result.commit?.oid of a successful call: absent, or the id of the new commit.
CommitOids == {None, Some("oidA")}
JitterSamples == {0, JitterRange - 1}
RemoteErrors ==
    {MsgUnauthorized, MsgForbidden, MsgBadRequest, MsgUnprocessable, MsgNotFound,
     MsgTooMany, MsgServer, MsgReset}

\* Rejections of the single-file upload call: the above and the mixed ones.
UploadErrors ==
    RemoteErrors \cup {MsgNotFoundAuth, MsgNotFoundRate, MsgRateDenied, MsgAuthWord, MsgNoEntry}

\* Rejections of hfUploadFiles for a batch: one that is retried, one that is not.
BatchErrors == {MsgServer, MsgNotFound}

\* Files whose presence on disk varies: the first file of the first two batches.
ProbeFiles == {1, batchSize + 1}

\* The directory that holds the files of the first batch, 1..batchSize; in
\* missingFiles it stands for the removal of all of them.
FirstBatchDir == 0

\* What is missing when a multi-file upload starts: any of the probe files, or
\* the directory of the first batch.
GoneSets == (SUBSET ProbeFiles) \cup {{FirstBatchDir}}

\* The files a member of GoneSets removes.
FilesGone(gone) ==
    (gone \ {FirstBatchDir}) \cup (IF FirstBatchDir \in gone THEN 1..batchSize ELSE {})

FileCounts ==
    {b * batchSize + d : b \in 0..MaxFullBatches, d \in {0, 1}}
        \cup {batchSize + batchSize \div 2}

\* options.filePaths: n numbered paths, the one at position blankAt replaced by
\* blank.  The list is kept as (n, blankAt, blank); PathsOf is the array.
PathList(n, blankAt, blank) == [n |-> n, blankAt |-> blankAt, blank |-> blank]
PathAt(l, i) == IF i = l.blankAt THEN l.blank ELSE i
PathsOf(l) == [i \in 1..l.n |-> PathAt(l, i)]

Min(a, b) == IF a < b THEN a ELSE b
Max(a, b) == IF a > b THEN a ELSE b
Ceil(a, b) == (a + b - 1) \div b

RECURSIVE Pow2(_)
Pow2(n) == IF n = 0 THEN 1 ELSE 2 * Pow2(n - 1)

NoBatchOptions == [files |-> 0, batchSize |-> 1, maxConcurrency |-> 1, delayBetweenBatches |-> 0]

DEFAULT_RETRY_CONFIG == [maxRetries |-> 3, baseDelay |-> baseDelay, maxDelay |-> maxDelay]

\* The retryConfig given to the constructor: the default delays with 0 to
\* MaxRetriesBound retries, and one configuration whose maxDelay is below its
\* baseDelay, so that the cap of the backoff applies from the first wait on.
RetryConfigs ==
    {[DEFAULT_RETRY_CONFIG EXCEPT !.maxRetries = k] : k \in 0..MaxRetriesBound}
        \cup {[maxRetries |-> 1, baseDelay |-> 1000, maxDelay |-> 500]}

VARIABLES
    pc,             \* position of the running operation
    op,             \* the public operation in progress
    opts,           \* its options
    startMissing,   \* history: the files missing when the operation started
    retryConfig,    \* this.retryConfig
    attempt,        \* withRetry: loop counter
    lastError,      \* withRetry: lastError
    sleepFor,       \* withRetry: the jittered delay being waited, 0 when not sleeping
    missingFiles,   \* local filesystem: numbered files that do not exist
    result,         \* value the operation resolved to (an option)
    settled,        \* "pending", "resolved" or "rejected"
    thrown,         \* the error a rejected operation rejected with (an option)
    batchIndex,     \* uploadFiles: batchIndex
    filesProcessed, \* uploadFiles: filesProcessed
    failedFiles,    \* uploadFiles: failedFiles
    commitSha,      \* uploadFiles: commitSha
    oidLog,         \* history: per batch, the response of its call when it succeeded (an option)
    validFiles,     \* uploadFiles: files of the current batch that passed pathExists
    dest,           \* download: state of the destination path
    destBefore,     \* download: state of the destination path when the call began
    totalBytes,     \* download: totalBytes (chunks seen)
    streamError,    \* download: the error the pipeline rejected with (an option)
    unlinked,       \* download: outcome of the cleanup unlink
    attempts,       \* history: invocations of the operation by the current withRetry
    retryOutcome,   \* history: "none", "running", "returned", "threw"
    response,       \* history: the value the last remote call returned (an option)
    rethrown,       \* withRetry: what its throw statement raised (an option)
    waits,          \* history: sleeps the current withRetry has started
    remoteCalls,    \* history: remote hub calls made by the operation
    batchLog,       \* history: outcome of each batch, in order
    missingSeen,    \* history: files that pathExists reported missing
    maxCallFiles,   \* history: largest number of files handed to one remote call
    matchedPaths,   \* resolvePattern: matchedPaths
    files,          \* resolvePattern: files
    totalSize,      \* resolvePattern: totalSize
    statCalls,      \* history: getFileSize calls made by resolvePattern
    statFailed,     \* history: matched paths whose getFileSize threw
    token,          \* authManager: the token getToken() yields (an option)
    tokenCheck,     \* history: "none", "accepted" or "rejected" by validateToken
    resolved,       \* upload command: paths of the resolved files (an option)
    clientCalls,    \* history: the client calls a command made, in order
    fileChunks,     \* createStreamingFileBlob: chunks of highWaterMark bytes the file holds
    held,           \* createStreamingFileBlob: chunks of the file held in memory
    cachedToken,    \* AuthManager: this.token (None is null)
    tokenSource,    \* AuthManager: this.tokenSource ("none" is null)
    envToken,       \* process.env.HF_TOKEN (None is unset)
    authLog,        \* history: the AuthManager operations made, with what they returned
    batchOptions,   \* processBatches: files.length, batchSize, maxConcurrency, delayBetweenBatches
    groupIndex,     \* processBatches: i, the index of the first batch of the group
    inFlight,       \* processBatches: batches whose processor call has not settled
    groupProcessed, \* processBatches: filesProcessed
    results,        \* processBatches: results, as the batches they came from
    groupLog,       \* history: starts and ends of processor calls, and sleeps
    mutatedFrom,    \* history: where failedFiles / filesProcessed were written from ("callback", "loop")
    transferCause   \* history: the message the remote download call of the command was rejected with (an option)

vars == <<pc, op, opts, startMissing, retryConfig, attempt, lastError, sleepFor, missingFiles, result,
          settled, thrown, batchIndex, filesProcessed, failedFiles, commitSha, oidLog, validFiles,
          dest,
          destBefore, totalBytes, streamError, unlinked, attempts, retryOutcome,
          response, rethrown, waits, remoteCalls,
          batchLog, missingSeen, maxCallFiles, matchedPaths, files, totalSize,
          statCalls, statFailed, token, tokenCheck, resolved, clientCalls,
          fileChunks, held, cachedToken, tokenSource, envToken, authLog, batchOptions,
          groupIndex, inFlight, groupProcessed, results, groupLog, mutatedFrom, transferCause>>

blobVars == <<fileChunks, held>>
authVars == <<cachedToken, tokenSource, envToken, authLog>>
groupVars == <<batchOptions, groupIndex, inFlight, groupProcessed, results, groupLog>>
retryVars == <<attempt, lastError, sleepFor, attempts, retryOutcome, response, rethrown, waits>>
multiVars == <<batchIndex, filesProcessed, failedFiles, commitSha, oidLog, validFiles, batchLog,
               missingSeen, maxCallFiles>>
downloadVars == <<dest, destBefore, totalBytes, streamError, unlinked>>
resolveVars == <<matchedPaths, files, totalSize, statCalls, statFailed>>
commandVars == <<token, tokenCheck, resolved, clientCalls>>

NoOpts == [repoId |-> <<>>, repoType |-> <<>>, filePath |-> 0, filePaths |-> None,
           pattern |-> <<>>, maxFiles |-> 0]

Init ==
    /\ pc = "idle"
    /\ op = "none"
    /\ opts = NoOpts
    /\ startMissing = {}
    /\ retryConfig \in RetryConfigs
    /\ attempt = 0
    /\ lastError = NoError
    /\ sleepFor = 0
    /\ missingFiles = {}
    /\ result = None
    /\ settled = "pending"
    /\ thrown = None
    /\ batchIndex = 0
    /\ filesProcessed = 0
    /\ failedFiles = <<>>
    /\ commitSha = "unknown"
    /\ oidLog = <<>>
    /\ validFiles = <<>>
    /\ dest = "absent"
    /\ destBefore = "absent"
    /\ totalBytes = 0
    /\ streamError = None
    /\ unlinked = "none"
    /\ attempts = 0
    /\ retryOutcome = "none"
    /\ response = None
    /\ rethrown = None
    /\ waits = 0
    /\ remoteCalls = 0
    /\ batchLog = <<>>
    /\ missingSeen = {}
    /\ maxCallFiles = 0
    /\ matchedPaths = <<>>
    /\ files = <<>>
    /\ totalSize = 0
    /\ statCalls = 0
    /\ statFailed = {}
    /\ token = None
    /\ tokenCheck = "none"
    /\ resolved = None
    /\ clientCalls = <<>>
    /\ fileChunks = 0
    /\ held = 0
    /\ cachedToken = None
    /\ tokenSource = "none"
    /\ envToken = None
    /\ authLog = <<>>
    /\ batchOptions = NoBatchOptions
    /\ groupIndex = 0
    /\ inFlight = {}
    /\ groupProcessed = 0
    /\ results = <<>>
    /\ groupLog = <<>>
    /\ mutatedFrom = {}
    /\ transferCause = None

pathExists(p) ==
    /\ p > 0
    /\ p \notin missingFiles
    /\ ~(FirstBatchDir \in missingFiles /\ p <= batchSize)

(***************************************************************************)
(* Settling the promise of the public operation.                           *)
(***************************************************************************)
Resolve(value) ==
    /\ result' = Some(value)
    /\ settled' = "resolved"
    /\ thrown' = None
    /\ pc' = "done"

Reject(error) ==
    /\ result' = None
    /\ settled' = "rejected"
    /\ thrown' = Some(error)
    /\ pc' = "done"

(***************************************************************************)
(* withRetry.  The operation is invoked by the *Attempt actions; the       *)
(* operators below are the executor's bookkeeping around one invocation.   *)
(***************************************************************************)
withRetryBegin ==
    /\ attempt' = 0
    /\ lastError' = NoError
    /\ sleepFor' = 0
    /\ attempts' = 0
    /\ retryOutcome' = "running"
    /\ response' = None
    /\ rethrown' = None
    /\ waits' = 0
    /\ pc' = "retry_call"

\* Variant: the last attempt is taken to be attempt maxRetries - 1.
GivesUpOneEarly(error) ==
    shouldNotRetry(error) \/ attempt + 1 >= retryConfig.maxRetries

\* The catch block gives up: terminal error, or the last attempt.
GivesUp(error) ==
    shouldNotRetry(error) \/ attempt = retryConfig.maxRetries

\* Variant: the delay doubles without a ceiling.
backoffDelayUncapped(n) == retryConfig.baseDelay * Pow2(n)

\* delay: Math.min(baseDelay * Math.pow(2, attempt), maxDelay).
backoffDelay(n) == Min(retryConfig.baseDelay * Pow2(n), retryConfig.maxDelay)

Invoked(error) ==
    /\ attempts' = attempts + 1
    /\ remoteCalls' = remoteCalls + 1
    /\ lastError' = error

\* The value caught from invocation n of the operation: the object the
\* invocation raised, identified by the invocation that created it.
Caught(n, error) == [raisedBy |-> n, value |-> error]

\* Variant: a success after failures also raises the last failure.
withRetryReturnsAfterRaising(value) ==
    /\ Invoked(lastError)
    /\ retryOutcome' = "returned"
    /\ response' = Some(value)
    /\ rethrown' = IF lastError = NoError THEN None ELSE Some(Caught(attempts, lastError))
    /\ UNCHANGED <<attempt, sleepFor, waits>>

\* return await operation(): the value of the attempt is the executor's value.
withRetryReturns(value) ==
    /\ Invoked(lastError)
    /\ retryOutcome' = "returned"
    /\ response' = Some(value)
    /\ UNCHANGED <<attempt, sleepFor, rethrown, waits>>

\* Variant: the executor raises a new Error built from the caught message.
withRetryThrowsWrapped(error) ==
    /\ GivesUp(error)
    /\ Invoked(error)
    /\ retryOutcome' = "threw"
    /\ rethrown' = Some(Caught(0, JsError(error.message)))
    /\ UNCHANGED <<attempt, sleepFor, response, waits>>

\* The catch block gives up: throw error, the caught value itself.
withRetryThrows(error) ==
    /\ GivesUp(error)
    /\ Invoked(error)
    /\ retryOutcome' = "threw"
    /\ rethrown' = Some(Caught(attempts + 1, error))
    /\ UNCHANGED <<attempt, sleepFor, response, waits>>

withRetrySleeps(error) ==
    /\ ~GivesUp(error)
    /\ Invoked(error)
    /\ \E jitter \in JitterSamples : sleepFor' = backoffDelay(attempt) + jitter
    /\ waits' = waits + 1
    /\ pc' = "retry_sleep"
    /\ UNCHANGED <<attempt, retryOutcome, response, rethrown>>

\* sleep() resolves: the loop increments attempt and invokes the operation again.
RetryWake ==
    /\ pc = "retry_sleep"
    /\ attempt' = attempt + 1
    /\ sleepFor' = 0
    /\ pc' = "retry_call"
    /\ UNCHANGED <<op, opts, startMissing, retryConfig, lastError, missingFiles, result, settled, thrown,
                   attempts, retryOutcome, response, rethrown, waits, remoteCalls>>
    /\ UNCHANGED multiVars
    /\ UNCHANGED downloadVars
    /\ UNCHANGED resolveVars
    /\ UNCHANGED commandVars
    /\ UNCHANGED authVars
    /\ UNCHANGED groupVars
    /\ UNCHANGED blobVars
    /\ UNCHANGED mutatedFrom
    /\ UNCHANGED transferCause

(***************************************************************************)
(* Input validation.  Each operator yields the option of the thrown error. *)
(***************************************************************************)
IsBlank(s) == s = <<>> \/ Trim(s) = <<>>

\* Variant: the repository type is not checked.
validateUploadInputsSkipsType(o) ==
    IF IsBlank(o.repoId) THEN Some(createError("validation_error", MsgRepoRequired))
    ELSE IF IsBlank(PathName(o.filePath))
      THEN Some(createError("validation_error", MsgPathRequired))
    ELSE None

validateUploadInputs(o) ==
    IF IsBlank(o.repoId) THEN Some(createError("validation_error", MsgRepoRequired))
    ELSE IF IsBlank(PathName(o.filePath))
      THEN Some(createError("validation_error", MsgPathRequired))
    ELSE IF ~isValidRepoType(o.repoType)
      THEN Some(createError("validation_error", MsgBadType \o o.repoType))
    ELSE None

validateMultiUploadInputs(o) ==
    IF IsBlank(o.repoId) THEN Some(createError("validation_error", MsgRepoRequired))
    ELSE IF o.filePaths = None \/ The(o.filePaths).n = 0
      THEN Some(createError("validation_error", MsgPathsRequired))
    ELSE IF \E i \in 1..The(o.filePaths).n : IsBlank(PathName(PathAt(The(o.filePaths), i)))
      THEN Some(createError("validation_error", MsgPathEmpty))
    ELSE IF ~isValidRepoType(o.repoType)
      THEN Some(createError("validation_error", MsgBadType \o o.repoType))
    ELSE None

validateDownloadInputs(o) ==
    IF IsBlank(o.repoId) THEN Some(createError("validation_error", MsgRepoRequired))
    ELSE IF IsBlank(PathName(o.filePath))
      THEN Some(createError("validation_error", MsgPathRequired))
    ELSE IF ~isValidRepoType(o.repoType)
      THEN Some(createError("validation_error", MsgBadType \o o.repoType))
    ELSE None

(***************************************************************************)
(* uploadFile                                                              *)
(***************************************************************************)
UploadFailure(error) == [success |-> FALSE, fileUrl |-> None, commitSha |-> None,
                         error |-> Some(handleError(error).message)]

\* The catch block of uploadFile.
uploadFileCatch(error) == Resolve(UploadFailure(error))

UploadFile ==
    /\ pc = "idle"
    /\ \E gone \in SUBSET ProbeFiles : missingFiles' = gone /\ startMissing' = gone
    /\ \E repoId \in RepoIds, repoType \in RepoTypes, filePath \in SinglePaths :
         LET o == [NoOpts EXCEPT !.repoId = repoId, !.repoType = repoType,
                                 !.filePath = filePath]
             invalid == validateUploadInputs(o)
         IN /\ op' = "uploadFile"
            /\ opts' = o
            /\ IF invalid # None THEN uploadFileCatch(The(invalid))
               ELSE IF ~(filePath > 0 /\ filePath \notin missingFiles')
                 THEN uploadFileCatch(createError("file_not_found",
                                          MsgLocalMissing \o PathName(filePath)))
               ELSE /\ pc' = "upload_stat"
                    /\ UNCHANGED <<result, settled, thrown>>
    /\ UNCHANGED <<retryConfig, remoteCalls>>
    /\ UNCHANGED retryVars
    /\ UNCHANGED multiVars
    /\ UNCHANGED downloadVars
    /\ UNCHANGED resolveVars
    /\ UNCHANGED commandVars
    /\ UNCHANGED authVars
    /\ UNCHANGED groupVars
    /\ UNCHANGED blobVars
    /\ UNCHANGED mutatedFrom
    /\ UNCHANGED transferCause

\* Sizes of a local file, in chunks of highWaterMark (8 MiB) bytes.
ChunkCounts == 1..MaxChunks

\* createStreamingFileBlob: fs.stat of the file; the ReadableStream and the
\* Response are built and response.blob() starts to read the stream.
UploadFileStat ==
    /\ pc = "upload_stat"
    /\ IF pathExists(opts.filePath)
         THEN /\ \E n \in ChunkCounts : fileChunks' = n
              /\ held' = 0
              /\ pc' = "upload_blob"
              /\ UNCHANGED <<result, settled, thrown>>
         ELSE /\ uploadFileCatch(JsError(MsgNoEntry))
              /\ UNCHANGED blobVars
    /\ UNCHANGED <<op, opts, startMissing, retryConfig, missingFiles, remoteCalls>>
    /\ UNCHANGED retryVars
    /\ UNCHANGED multiVars
    /\ UNCHANGED downloadVars
    /\ UNCHANGED resolveVars
    /\ UNCHANGED commandVars
    /\ UNCHANGED authVars
    /\ UNCHANGED groupVars
    /\ UNCHANGED mutatedFrom
    /\ UNCHANGED transferCause

\* One "data" event of the read stream: controller.enqueue(new Uint8Array(chunk)).
\* response.blob() takes the chunk from the stream's queue and keeps it as a
\* part of the blob it is building, so the chunk stays in memory.
UploadBlobRead ==
    /\ pc = "upload_blob"
    /\ held < fileChunks
    /\ held' = held + 1
    /\ UNCHANGED <<pc, op, opts, startMissing, retryConfig, missingFiles, remoteCalls,
                   result, settled, thrown, fileChunks>>
    /\ UNCHANGED retryVars
    /\ UNCHANGED multiVars
    /\ UNCHANGED downloadVars
    /\ UNCHANGED resolveVars
    /\ UNCHANGED commandVars
    /\ UNCHANGED authVars
    /\ UNCHANGED groupVars
    /\ UNCHANGED mutatedFrom
    /\ UNCHANGED transferCause

\* The read stream's "error" event: controller.error(error) makes
\* response.blob() reject, which lands in the catch block of uploadFile.
UploadBlobFails ==
    /\ pc = "upload_blob"
    /\ held < fileChunks
    /\ held' = 0
    /\ uploadFileCatch(JsError(MsgNoEntry))
    /\ UNCHANGED <<op, opts, startMissing, retryConfig, missingFiles, remoteCalls, fileChunks>>
    /\ UNCHANGED retryVars
    /\ UNCHANGED multiVars
    /\ UNCHANGED downloadVars
    /\ UNCHANGED resolveVars
    /\ UNCHANGED commandVars
    /\ UNCHANGED authVars
    /\ UNCHANGED groupVars
    /\ UNCHANGED mutatedFrom
    /\ UNCHANGED transferCause

\* The read stream's "end" event: controller.close(); response.blob() resolves
\* with a blob of every chunk, and uploadFile goes on to the remote call with
\* that blob as the file's content.
UploadBlobDone ==
    /\ pc = "upload_blob"
    /\ held = fileChunks
    /\ withRetryBegin
    /\ UNCHANGED <<op, opts, startMissing, retryConfig, missingFiles, remoteCalls,
                   result, settled, thrown>>
    /\ UNCHANGED blobVars
    /\ UNCHANGED multiVars
    /\ UNCHANGED downloadVars
    /\ UNCHANGED resolveVars
    /\ UNCHANGED commandVars
    /\ UNCHANGED authVars
    /\ UNCHANGED groupVars
    /\ UNCHANGED mutatedFrom
    /\ UNCHANGED transferCause

\* Variant: a response without a commit identifier is reported as a failure.
UploadSuccessRequiresCommit(oid) ==
    [success |-> oid # None,
     fileUrl |-> Some(UrlHost \o opts.repoId \o UrlBlobMain
                      \o basename(PathName(opts.filePath))),
     commitSha |-> IF oid = None THEN None ELSE Some(The(oid)),
     error |-> None]

\* The value uploadFile returns after the remote call; oid is result.commit?.oid.
UploadSuccess(oid) ==
    [success |-> TRUE,
     fileUrl |-> Some(UrlHost \o opts.repoId \o UrlBlobMain
                      \o basename(PathName(opts.filePath))),
     commitSha |-> Some(IF oid = None THEN "unknown" ELSE The(oid)),
     error |-> None]

UploadFileAttempt ==
    /\ pc = "retry_call"
    /\ op = "uploadFile"
    /\ \/ \E oid \in CommitOids :
            /\ withRetryReturns(oid)
            /\ Resolve(UploadSuccess(oid))
       \/ \E m \in UploadErrors :
            \/ /\ withRetryThrows(JsError(m))
               /\ uploadFileCatch(JsError(m))
            \/ /\ withRetrySleeps(JsError(m))
               /\ UNCHANGED <<result, settled, thrown>>
    /\ UNCHANGED <<op, opts, startMissing, retryConfig, missingFiles>>
    /\ UNCHANGED multiVars
    /\ UNCHANGED downloadVars
    /\ UNCHANGED resolveVars
    /\ UNCHANGED commandVars
    /\ UNCHANGED authVars
    /\ UNCHANGED groupVars
    /\ UNCHANGED blobVars
    /\ UNCHANGED mutatedFrom
    /\ UNCHANGED transferCause

(***************************************************************************)
(* validateRepository                                                      *)
(***************************************************************************)
ValidateRepository ==
    /\ pc = "idle"
    /\ \E repoId \in {RepoBare, RepoOwnerName}, repoType \in {TypeModel, TypeBogus} :
         /\ op' = "validateRepository"
         /\ opts' = [NoOpts EXCEPT !.repoId = repoId, !.repoType = repoType]
    /\ withRetryBegin
    /\ UNCHANGED <<startMissing, retryConfig, missingFiles, result, settled, thrown,
                   remoteCalls>>
    /\ UNCHANGED multiVars
    /\ UNCHANGED downloadVars
    /\ UNCHANGED resolveVars
    /\ UNCHANGED commandVars
    /\ UNCHANGED authVars
    /\ UNCHANGED groupVars
    /\ UNCHANGED blobVars
    /\ UNCHANGED mutatedFrom
    /\ UNCHANGED transferCause

\* Variant: the catch block lets the failure escape.
validateRepositoryCatchRethrows == Reject(lastError')

\* The catch block of validateRepository.
validateRepositoryCatch == Resolve(FALSE)

\* One invocation of the probe: listFiles(...) and the first iterator.next().
ListFilesAttempt ==
    /\ pc = "retry_call"
    /\ op = "validateRepository"
    /\ \/ /\ withRetryReturns("files")
          /\ Resolve(TRUE)
       \/ \E m \in RemoteErrors :
            \/ /\ withRetryThrows(JsError(m))
               /\ validateRepositoryCatch
            \/ /\ withRetrySleeps(JsError(m))
               /\ UNCHANGED <<result, settled, thrown>>
    /\ UNCHANGED <<op, opts, startMissing, retryConfig, missingFiles>>
    /\ UNCHANGED multiVars
    /\ UNCHANGED downloadVars
    /\ UNCHANGED resolveVars
    /\ UNCHANGED commandVars
    /\ UNCHANGED authVars
    /\ UNCHANGED groupVars
    /\ UNCHANGED blobVars
    /\ UNCHANGED mutatedFrom
    /\ UNCHANGED transferCause

(***************************************************************************)
(* uploadFiles                                                             *)
(***************************************************************************)
MultiPathInputs ==
    {None} \cup {Some(PathList(n, 0, 0)) : n \in FileCounts}
           \cup {Some(PathList(2, 2, 0)), Some(PathList(2, 1, -1))}

totalFiles == The(opts.filePaths).n
totalBatches == Ceil(totalFiles, batchSize)

\* Variant: the slice runs one element past the batch.
batchFilesOfOneMore(b) ==
    LET startIndex == b * batchSize
        endIndex == Min(startIndex + batchSize + 1, totalFiles)
    IN [i \in 1..(endIndex - startIndex) |-> PathAt(The(opts.filePaths), startIndex + i)]

\* options.filePaths.slice(startIndex, endIndex) of batch b (0-based).
batchFilesOf(b) ==
    LET startIndex == b * batchSize
        endIndex == Min(startIndex + batchSize, totalFiles)
    IN [i \in 1..(endIndex - startIndex) |-> PathAt(The(opts.filePaths), startIndex + i)]

batchFiles == batchFilesOf(batchIndex)

\* The positions in options.filePaths of the files of batch b (0-based), and
\* the files of batch b as a set.
batchPositions(b) == (b * batchSize + 1)..Min(b * batchSize + batchSize, totalFiles)
batchFileSet(b) == {PathAt(The(opts.filePaths), k) : k \in batchPositions(b)}

pathMissing(p) == ~pathExists(p)

\* Variant: the catch block records nothing.
batchCatchRecordsNothing(failed) == failed

\* The catch block of one batch: failedFiles.push(...batchFiles).
batchCatch(failed) == failed \o batchFiles

\* Variant: any failed file makes the run a failure.
MultiResultAllOrNothing(processed, failed, sha) ==
    LET success == processed > 0 /\ Len(failed) = 0 IN
    [success |-> success,
     filesUploaded |-> processed,
     totalFiles |-> totalFiles,
     commitSha |-> IF success /\ sha # "unknown" THEN Some(sha) ELSE None,
     failedFiles |-> IF Len(failed) > 0 THEN Some(failed) ELSE None,
     error |-> None]

\* The value returned after the batch loop.
MultiResult(processed, failed, sha) ==
    LET success == processed > 0 IN
    [success |-> success,
     filesUploaded |-> processed,
     totalFiles |-> totalFiles,
     commitSha |-> IF success /\ sha # "unknown" THEN Some(sha) ELSE None,
     failedFiles |-> IF Len(failed) > 0 THEN Some(failed) ELSE None,
     error |-> None]

\* The outer catch block of uploadFiles; it reads options.filePaths.length.
uploadFilesCatch(o, error) ==
    IF o.filePaths = None THEN Reject(JsError(MsgTypeError))
    ELSE Resolve([success |-> FALSE,
                  filesUploaded |-> 0,
                  totalFiles |-> The(o.filePaths).n,
                  commitSha |-> None,
                  failedFiles |-> Some(PathsOf(The(o.filePaths))),
                  error |-> Some(handleError(error).message)])

UploadFiles ==
    /\ pc = "idle"
    /\ \E gone \in GoneSets : missingFiles' = gone /\ startMissing' = FilesGone(gone)
    /\ \E repoId \in {RepoEmpty, RepoOwnerName}, repoType \in {TypeModel, TypeBogus},
          paths \in MultiPathInputs :
         LET o == [NoOpts EXCEPT !.repoId = repoId, !.repoType = repoType,
                                 !.filePaths = paths]
             invalid == validateMultiUploadInputs(o)
         IN /\ op' = "uploadFiles"
            /\ opts' = o
            /\ IF invalid # None THEN uploadFilesCatch(o, The(invalid))
               ELSE /\ pc' = "batch_exists"
                    /\ UNCHANGED <<result, settled, thrown>>
    /\ batchIndex' = 0
    /\ filesProcessed' = 0
    /\ failedFiles' = <<>>
    /\ commitSha' = "unknown"
    /\ oidLog' = <<>>
    /\ UNCHANGED <<retryConfig, remoteCalls, validFiles, batchLog, missingSeen, maxCallFiles>>
    /\ UNCHANGED retryVars
    /\ UNCHANGED downloadVars
    /\ UNCHANGED resolveVars
    /\ UNCHANGED commandVars
    /\ UNCHANGED authVars
    /\ UNCHANGED groupVars
    /\ UNCHANGED blobVars
    /\ UNCHANGED mutatedFrom
    /\ UNCHANGED transferCause

\* Variant: a batch whose call failed ends the run.
NextBatchStopsOnFailure(processed, failed, sha, how) ==
    /\ filesProcessed' = processed
    /\ failedFiles' = failed
    /\ commitSha' = sha
    /\ oidLog' = Append(oidLog, IF how = "uploaded" THEN response' ELSE None)
    /\ batchLog' = Append(batchLog, how)
    /\ batchIndex' = batchIndex + 1
    /\ validFiles' = <<>>
    /\ IF batchIndex + 1 < totalBatches /\ how # "failed"
         THEN /\ pc' = "batch_exists"
              /\ UNCHANGED <<result, settled, thrown>>
         ELSE Resolve(MultiResult(processed, failed, sha))

\* End of one iteration of the batch loop with the accumulators as given.
NextBatch(processed, failed, sha, how) ==
    /\ filesProcessed' = processed
    /\ failedFiles' = failed
    /\ commitSha' = sha
    /\ oidLog' = Append(oidLog, IF how = "uploaded" THEN response' ELSE None)
    /\ batchLog' = Append(batchLog, how)
    /\ batchIndex' = batchIndex + 1
    /\ validFiles' = <<>>
    /\ IF batchIndex + 1 < totalBatches
         THEN /\ pc' = "batch_exists"
              /\ UNCHANGED <<result, settled, thrown>>
         ELSE Resolve(MultiResult(processed, failed, sha))

\* Variant: a batch is sent whatever it holds.
skipsBatchNever(valid) == FALSE

\* if (validFiles.length === 0) continue.
skipsBatch(valid) == Len(valid) = 0

\* Where the push of a missing file is made: failedFiles.push(filePath) stands
\* inside the async callback given to batchFiles.map, one of the promises that
\* Promise.all awaits together.
pushedInCallback(absent) == IF Len(absent) > 0 THEN {"callback"} ELSE {}

\* Promise.all over the batch, first half: every callback awaits pathExists.
\* A missing file is pushed to failedFiles and maps to null.
BatchPathExists ==
    /\ pc = "batch_exists"
    /\ LET present == SelectSeq(batchFiles, pathExists)
           absent == SelectSeq(batchFiles, pathMissing)
       IN /\ missingSeen' = missingSeen \cup {p \in batchFileSet(batchIndex) : pathMissing(p)}
          /\ mutatedFrom' = mutatedFrom \cup pushedInCallback(absent)
          /\ IF skipsBatch(present)
            THEN NextBatch(filesProcessed, failedFiles \o absent, commitSha, "skipped")
            ELSE /\ failedFiles' = failedFiles \o absent
                 /\ validFiles' = present
                 /\ pc' = "batch_stat"
                 /\ UNCHANGED <<batchIndex, filesProcessed, commitSha, oidLog, batchLog, result,
                                settled, thrown>>
    /\ UNCHANGED <<op, opts, startMissing, retryConfig, missingFiles, remoteCalls, maxCallFiles>>
    /\ UNCHANGED retryVars
    /\ UNCHANGED downloadVars
    /\ UNCHANGED resolveVars
    /\ UNCHANGED commandVars
    /\ UNCHANGED authVars
    /\ UNCHANGED groupVars
    /\ UNCHANGED blobVars
    /\ UNCHANGED transferCause

\* Second half: createStreamingFileBlob stats every file that exists.  A stat
\* that throws rejects Promise.all and lands in the batch catch block.
BatchStat ==
    /\ pc = "batch_stat"
    /\ IF \A i \in 1..Len(validFiles) : pathExists(validFiles[i])
         THEN /\ withRetryBegin
              /\ UNCHANGED <<result, settled, thrown>>
              /\ UNCHANGED multiVars
              /\ UNCHANGED mutatedFrom
         ELSE /\ NextBatch(filesProcessed, batchCatch(failedFiles), commitSha, "aborted")
              /\ mutatedFrom' = mutatedFrom \cup {"loop"}
              /\ UNCHANGED <<missingSeen, maxCallFiles>>
              /\ UNCHANGED retryVars
    /\ UNCHANGED <<op, opts, startMissing, retryConfig, missingFiles, remoteCalls>>
    /\ UNCHANGED downloadVars
    /\ UNCHANGED resolveVars
    /\ UNCHANGED commandVars
    /\ UNCHANGED authVars
    /\ UNCHANGED groupVars
    /\ UNCHANGED blobVars
    /\ UNCHANGED transferCause

\* result.commit?.oid of the call for batch b: absent, or the id of the commit
\* that call made, which differs from batch to batch.
BatchOids(b) == {None, Some("oid" \o ToString(b))}

\* Variant: the first commit id is kept.
commitShaAfterKeepsFirst(sha, oid) ==
    IF sha # "unknown" \/ oid = None \/ oid = Some("") THEN sha ELSE The(oid)

\* commitSha = result.commit?.oid || commitSha.
commitShaAfter(sha, oid) ==
    IF oid = None \/ oid = Some("") THEN sha ELSE The(oid)

\* The files handed to hfUploadFiles for the current batch: every valid file
\* goes under path.basename(filePath).
batchPayload ==
    [i \in 1..Len(validFiles) |-> [path |-> basename(PathName(validFiles[i])),
                                   content |-> validFiles[i]]]

\* One invocation of hfUploadFiles for the current batch, and what follows it.
UploadBatchAttempt ==
    /\ pc = "retry_call"
    /\ op = "uploadFiles"
    /\ maxCallFiles' = Max(maxCallFiles, Len(validFiles))
    /\ UNCHANGED missingSeen
    /\ \/ \E oid \in BatchOids(batchIndex) :
            /\ withRetryReturns(oid)
            /\ NextBatch(filesProcessed + Len(validFiles), failedFiles,
                         commitShaAfter(commitSha, oid), "uploaded")
            /\ mutatedFrom' = mutatedFrom \cup {"loop"}
       \/ \E m \in BatchErrors :
            \/ /\ withRetryThrows(JsError(m))
               /\ NextBatch(filesProcessed, batchCatch(failedFiles), commitSha, "failed")
               /\ mutatedFrom' = mutatedFrom \cup {"loop"}
            \/ /\ withRetrySleeps(JsError(m))
               /\ UNCHANGED <<batchIndex, filesProcessed, failedFiles, commitSha, oidLog,
                              validFiles, batchLog, result, settled, thrown, mutatedFrom>>
    /\ UNCHANGED <<op, opts, startMissing, retryConfig, missingFiles>>
    /\ UNCHANGED downloadVars
    /\ UNCHANGED resolveVars
    /\ UNCHANGED commandVars
    /\ UNCHANGED authVars
    /\ UNCHANGED groupVars
    /\ UNCHANGED blobVars
    /\ UNCHANGED transferCause

(***************************************************************************)
(* downloadFile                                                            *)
(***************************************************************************)
StreamErrors == {MsgAborted, MsgReset}

DownloadFailure(error) == [success |-> FALSE, localPath |-> None, fileSize |-> None,
                           error |-> Some(handleError(error).message)]

\* The catch block of downloadFile.
downloadFileCatch(error) == Resolve(DownloadFailure(error))

DownloadFile ==
    /\ pc = "idle"
    /\ \E d \in {"absent", "old"} : dest' = d /\ destBefore' = d
    /\ \E repoId \in {RepoEmpty, RepoOwnerName}, repoType \in {TypeModel, TypeBogus},
          filePath \in SinglePaths :
         LET o == [NoOpts EXCEPT !.repoId = repoId, !.repoType = repoType,
                                 !.filePath = filePath]
             invalid == validateDownloadInputs(o)
         IN /\ op' = "downloadFile"
            /\ opts' = o
            /\ IF invalid # None THEN downloadFileCatch(The(invalid))
               ELSE /\ pc' = "download_ensure"
                    /\ UNCHANGED <<result, settled, thrown>>
    /\ UNCHANGED <<startMissing, retryConfig, missingFiles, remoteCalls, totalBytes, streamError,
                   unlinked>>
    /\ UNCHANGED retryVars
    /\ UNCHANGED multiVars
    /\ UNCHANGED resolveVars
    /\ UNCHANGED commandVars
    /\ UNCHANGED authVars
    /\ UNCHANGED groupVars
    /\ UNCHANGED blobVars
    /\ UNCHANGED mutatedFrom
    /\ UNCHANGED transferCause

\* fs.ensureDir(path.dirname(localPath))
DownloadEnsureDir ==
    /\ pc = "download_ensure"
    /\ \/ /\ withRetryBegin
          /\ UNCHANGED <<result, settled, thrown>>
       \/ /\ downloadFileCatch(JsError(MsgDenied))
          /\ UNCHANGED retryVars
    /\ UNCHANGED <<op, opts, startMissing, retryConfig, missingFiles, remoteCalls>>
    /\ UNCHANGED multiVars
    /\ UNCHANGED downloadVars
    /\ UNCHANGED resolveVars
    /\ UNCHANGED commandVars
    /\ UNCHANGED authVars
    /\ UNCHANGED groupVars
    /\ UNCHANGED blobVars
    /\ UNCHANGED mutatedFrom
    /\ UNCHANGED transferCause

\* One invocation of hfDownloadFile; it yields a blob, null, or throws.
DownloadAttempt ==
    /\ pc = "retry_call"
    /\ op = "downloadFile"
    /\ \/ /\ withRetryReturns("blob")
          /\ pc' = "stream_open"
          /\ UNCHANGED <<result, settled, thrown>>
       \/ /\ withRetryReturns("null")
          /\ downloadFileCatch(JsError(MsgNoResponse))
       \/ \E m \in RemoteErrors :
            \/ /\ withRetryThrows(JsError(m))
               /\ downloadFileCatch(JsError(m))
            \/ /\ withRetrySleeps(JsError(m))
               /\ UNCHANGED <<result, settled, thrown>>
    /\ UNCHANGED <<op, opts, startMissing, retryConfig, missingFiles>>
    /\ UNCHANGED multiVars
    /\ UNCHANGED downloadVars
    /\ UNCHANGED resolveVars
    /\ UNCHANGED commandVars
    /\ UNCHANGED authVars
    /\ UNCHANGED groupVars
    /\ UNCHANGED blobVars
    /\ UNCHANGED mutatedFrom
    /\ UNCHANGED transferCause

\* Variant: opening the write stream leaves an existing file as it is.
StreamOpenKeepsContent ==
    /\ pc = "stream_open"
    /\ \/ /\ dest' = IF dest = "old" THEN "old" ELSE "partial"
          /\ pc' = "streaming"
          /\ UNCHANGED streamError
       \/ /\ streamError' = Some(JsError(MsgDenied))
          /\ pc' = "stream_unlink"
          /\ UNCHANGED dest
    /\ UNCHANGED <<op, opts, startMissing, retryConfig, missingFiles, result, settled, thrown, remoteCalls,
                   destBefore, totalBytes, unlinked>>
    /\ UNCHANGED retryVars
    /\ UNCHANGED multiVars
    /\ UNCHANGED resolveVars
    /\ UNCHANGED commandVars
    /\ UNCHANGED authVars
    /\ UNCHANGED groupVars
    /\ UNCHANGED blobVars
    /\ UNCHANGED mutatedFrom
    /\ UNCHANGED transferCause

\* streamBlobToFile: fs.createWriteStream(localPath) opens the file, which
\* creates or truncates it, or fails to.
StreamOpen ==
    /\ pc = "stream_open"
    /\ \/ /\ dest' = "partial"
          /\ pc' = "streaming"
          /\ UNCHANGED streamError
       \/ /\ streamError' = Some(JsError(MsgDenied))
          /\ pc' = "stream_unlink"
          /\ UNCHANGED dest
    /\ UNCHANGED <<op, opts, startMissing, retryConfig, missingFiles, result, settled, thrown, remoteCalls,
                   destBefore, totalBytes, unlinked>>
    /\ UNCHANGED retryVars
    /\ UNCHANGED multiVars
    /\ UNCHANGED resolveVars
    /\ UNCHANGED commandVars
    /\ UNCHANGED authVars
    /\ UNCHANGED groupVars
    /\ UNCHANGED blobVars
    /\ UNCHANGED mutatedFrom
    /\ UNCHANGED transferCause

\* A chunk flows through the pipeline; the "data" listener counts it.
StreamChunk ==
    /\ pc = "streaming"
    /\ totalBytes < MaxChunks
    /\ totalBytes' = totalBytes + 1
    /\ UNCHANGED <<pc, op, opts, startMissing, retryConfig, missingFiles, result, settled, thrown, remoteCalls,
                   dest, destBefore, streamError, unlinked>>
    /\ UNCHANGED retryVars
    /\ UNCHANGED multiVars
    /\ UNCHANGED resolveVars
    /\ UNCHANGED commandVars
    /\ UNCHANGED authVars
    /\ UNCHANGED groupVars
    /\ UNCHANGED blobVars
    /\ UNCHANGED mutatedFrom
    /\ UNCHANGED transferCause

\* The pipeline resolves.
StreamEnd ==
    /\ pc = "streaming"
    /\ dest' = "complete"
    /\ Resolve([success |-> TRUE, localPath |-> Some(basename(PathName(opts.filePath))),
                fileSize |-> Some(totalBytes), error |-> None])
    /\ UNCHANGED <<op, opts, startMissing, retryConfig, missingFiles, remoteCalls, destBefore,
                   totalBytes, streamError, unlinked>>
    /\ UNCHANGED retryVars
    /\ UNCHANGED multiVars
    /\ UNCHANGED resolveVars
    /\ UNCHANGED commandVars
    /\ UNCHANGED authVars
    /\ UNCHANGED groupVars
    /\ UNCHANGED blobVars
    /\ UNCHANGED mutatedFrom
    /\ UNCHANGED transferCause

\* Variant: a pipeline that rejects sends the executor to another invocation.
StreamFailsIntoRetry ==
    /\ pc = "streaming"
    /\ \E m \in StreamErrors : streamError' = Some(JsError(m))
    /\ pc' = "retry_call"
    /\ UNCHANGED <<op, opts, startMissing, retryConfig, missingFiles, result, settled, thrown, remoteCalls,
                   dest, destBefore, totalBytes, unlinked>>
    /\ UNCHANGED retryVars
    /\ UNCHANGED multiVars
    /\ UNCHANGED resolveVars
    /\ UNCHANGED commandVars
    /\ UNCHANGED authVars
    /\ UNCHANGED groupVars
    /\ UNCHANGED blobVars
    /\ UNCHANGED mutatedFrom
    /\ UNCHANGED transferCause

\* The pipeline rejects: the catch block of streamBlobToFile is entered.
StreamFails ==
    /\ pc = "streaming"
    /\ \E m \in StreamErrors : streamError' = Some(JsError(m))
    /\ pc' = "stream_unlink"
    /\ UNCHANGED <<op, opts, startMissing, retryConfig, missingFiles, result, settled, thrown, remoteCalls,
                   dest, destBefore, totalBytes, unlinked>>
    /\ UNCHANGED retryVars
    /\ UNCHANGED multiVars
    /\ UNCHANGED resolveVars
    /\ UNCHANGED commandVars
    /\ UNCHANGED authVars
    /\ UNCHANGED groupVars
    /\ UNCHANGED blobVars
    /\ UNCHANGED mutatedFrom
    /\ UNCHANGED transferCause

\* Outcomes of fs.unlink(localPath): it removes an existing file or throws.
unlinkOutcomes == IF dest = "absent" THEN {"failed"} ELSE {"ok", "failed"}

\* Variant: the error is rethrown without the cleanup.
streamBlobToFileCatchKeepsFile(error, outcome) ==
    /\ unlinked' = "none"
    /\ dest' = dest
    /\ downloadFileCatch(error)

\* The catch block of streamBlobToFile: unlink, ignoring its failure, then
\* rethrow into the catch block of downloadFile.
streamBlobToFileCatch(error, outcome) ==
    /\ unlinked' = outcome
    /\ dest' = IF outcome = "ok" THEN "absent" ELSE dest
    /\ downloadFileCatch(error)

StreamCleanup ==
    /\ pc = "stream_unlink"
    /\ \E outcome \in unlinkOutcomes : streamBlobToFileCatch(The(streamError), outcome)
    /\ UNCHANGED <<op, opts, startMissing, retryConfig, missingFiles, remoteCalls, destBefore,
                   totalBytes, streamError>>
    /\ UNCHANGED retryVars
    /\ UNCHANGED multiVars
    /\ UNCHANGED resolveVars
    /\ UNCHANGED commandVars
    /\ UNCHANGED authVars
    /\ UNCHANGED groupVars
    /\ UNCHANGED blobVars
    /\ UNCHANGED mutatedFrom
    /\ UNCHANGED transferCause

UpperChars == <<"A", "B", "C", "D", "E", "F", "G", "H", "I", "J", "K", "L", "M", "N", "O", "P", "Q", "R", "S", "T", "U", "V", "W", "X", "Y", "Z">>
LowerChars == <<"a", "b", "c", "d", "e", "f", "g", "h", "i", "j", "k", "l", "m", "n", "o", "p", "q", "r", "s", "t", "u", "v", "w", "x", "y", "z">>
DigitChars == {"0", "1", "2", "3", "4", "5", "6", "7", "8", "9"}

DangerRoot == <<"/", "*", "*", "/", "*">>
DangerEtc == <<"/", "e", "t", "c", "/", "*", "*", "/", "*">>
DangerUsr == <<"/", "u", "s", "r", "/", "*", "*", "/", "*">>
DangerVar == <<"/", "v", "a", "r", "/", "*", "*", "/", "*">>
DangerHome == <<"/", "h", "o", "m", "e", "/", "*", "*", "/", "*">>
DangerTilde == <<"~", "/", "*", "*", "/", "*">>

PatEmpty == <<>>
PatBlank == <<" ">>
PatEtc == <<"/", "e", "t", "c", "/", "*", "*", "/", "*">>
PatEtcUpper == <<" ", "/", "E", "T", "C", "/", "*", "*", "/", "*", ".", "c", "o", "n", "f">>
PatRootAll == <<"/", "*", "*", "/", "*">>
PatTilde == <<"~", "/", "*", "*", "/", "*", ".", "b", "i", "n">>
PatTxt == <<"*", ".", "t", "x", "t">>
PatTmp == <<"/", "t", "m", "p", "/", "*", ".", "b", "i", "n">>
MsgUnsafePattern == <<"U", "n", "s", "a", "f", "e", " ", "f", "i", "l", "e", " ", "p", "a", "t", "t", "e", "r", "n", ":", " ">>
MsgBadRepoFormat == <<"I", "n", "v", "a", "l", "i", "d", " ", "r", "e", "p", "o", "s", "i", "t", "o", "r", "y", " ", "I", "D", " ", "f", "o", "r", "m", "a", "t", ":", " ">>

(***************************************************************************)
(* PatternResolver.isValidPattern and UploadCommand.isValidRepoId          *)
(***************************************************************************)
toLowerCaseChar(c) ==
    IF \E i \in 1..Len(UpperChars) : UpperChars[i] = c
      THEN LowerChars[CHOOSE i \in 1..Len(UpperChars) : UpperChars[i] = c]
      ELSE c

toLowerCase(s) == [i \in 1..Len(s) |-> toLowerCaseChar(s[i])]

startsWith(s, prefix) == Len(prefix) <= Len(s) /\ SubSeq(s, 1, Len(prefix)) = prefix

dangerousPatterns == {DangerRoot, DangerEtc, DangerUsr, DangerVar, DangerHome, DangerTilde}

isValidPattern(pattern) ==
    IF pattern = <<>> \/ Trim(pattern) = <<>> THEN FALSE
    ELSE LET normalizedPattern == Trim(toLowerCase(pattern)) IN
         ~\E dangerous \in dangerousPatterns :
              startsWith(normalizedPattern, toLowerCase(dangerous))

Alnum == {UpperChars[i] : i \in 1..Len(UpperChars)}
             \cup {LowerChars[i] : i \in 1..Len(LowerChars)} \cup DigitChars

\* [a-zA-Z0-9]([a-zA-Z0-9._-]*[a-zA-Z0-9])?
IsRepoSegment(s) ==
    /\ Len(s) >= 1
    /\ s[1] \in Alnum
    /\ s[Len(s)] \in Alnum
    /\ \A i \in 1..Len(s) : s[i] \in Alnum \cup {".", "_", "-"}

isValidRepoId(repoId) ==
    \E k \in 1..Len(repoId) :
        /\ repoId[k] = "/"
        /\ IsRepoSegment(SubSeq(repoId, 1, k - 1))
        /\ IsRepoSegment(SubSeq(repoId, k + 1, Len(repoId)))

(***************************************************************************)
(* PatternResolver.resolvePattern                                          *)
(***************************************************************************)
defaultMaxFiles == 10000

MsgResolvePrefix == <<"F", "a", "i", "l", "e", "d", " ", "t", "o", " ", "r", "e", "s", "o", "l", "v", "e", " ", "p", "a", "t", "t", "e", "r", "n", " ", "\"">>
MsgResolveSep == <<"\"", ":", " ">>
MsgMatched == <<"P", "a", "t", "t", "e", "r", "n", " ", "m", "a", "t", "c", "h", "e", "d", " ">>
MsgExceeds == <<" ", "f", "i", "l", "e", "s", ",", " ", "w", "h", "i", "c", "h", " ", "e", "x", "c", "e", "e", "d", "s", " ", "t", "h", "e", " ", "m", "a", "x", "i", "m", "u", "m", " ", "l", "i", "m", "i", "t", " ", "o", "f", " ">>
MsgMoreSpecific == <<".", " ", "P", "l", "e", "a", "s", "e", " ", "u", "s", "e", " ", "a", " ", "m", "o", "r", "e", " ", "s", "p", "e", "c", "i", "f", "i", "c", " ", "p", "a", "t", "t", "e", "r", "n", ".">>

\* options.maxFiles: left out (the default applies) or a small ceiling.
MaxFilesInputs == {None, Some(MaxMatched - 1)}
\* stats.size of a matched file.
FileSizes == {0, 7}
\* What fg.async rejects with.
GlobErrors == {MsgDenied}

\* The error thrown when the pattern matched more than maxFiles paths.
tooManyFiles(n, maxFiles) ==
    JsError(MsgMatched \o Decimal(n) \o MsgExceeds \o Decimal(maxFiles) \o MsgMoreSpecific)

\* The catch block of resolvePattern: every Error is wrapped in a new Error.
resolvePatternCatch(pattern, error) ==
    JsError(MsgResolvePrefix \o pattern \o MsgResolveSep \o error.message)

\* Variant: totalFiles counts the matched paths.
PatternResolutionCountsMatched(fs, size) ==
    [totalFiles |-> Len(matchedPaths), totalSize |-> size, files |-> fs]

\* The value resolvePattern returns.
PatternResolution(fs, size) ==
    [totalFiles |-> Len(fs), totalSize |-> size, files |-> fs]

\* fg.async, then the ceiling on the number of matched paths.
ResolvePattern ==
    /\ pc = "idle"
    /\ op' = "resolvePattern"
    /\ \E pattern \in {PatTxt, PatTmp}, limit \in MaxFilesInputs :
         LET maxFiles == IF limit = None THEN defaultMaxFiles ELSE The(limit) IN
         /\ opts' = [NoOpts EXCEPT !.pattern = pattern, !.maxFiles = maxFiles]
         /\ \/ \E m \in GlobErrors :
                 /\ Reject(resolvePatternCatch(pattern, JsError(m)))
                 /\ matchedPaths' = <<>>
            \/ \E n \in 0..MaxMatched :
                 /\ matchedPaths' = [i \in 1..n |-> i]
                 /\ IF n > maxFiles
                      THEN Reject(resolvePatternCatch(pattern, tooManyFiles(n, maxFiles)))
                    ELSE IF n = 0 THEN Resolve(PatternResolution(<<>>, 0))
                    ELSE /\ pc' = "resolve_stat"
                         /\ UNCHANGED <<result, settled, thrown>>
    /\ files' = <<>>
    /\ totalSize' = 0
    /\ statCalls' = 0
    /\ statFailed' = {}
    /\ UNCHANGED <<startMissing, retryConfig, missingFiles, remoteCalls>>
    /\ UNCHANGED retryVars
    /\ UNCHANGED multiVars
    /\ UNCHANGED downloadVars
    /\ UNCHANGED commandVars
    /\ UNCHANGED authVars
    /\ UNCHANGED groupVars
    /\ UNCHANGED blobVars
    /\ UNCHANGED mutatedFrom
    /\ UNCHANGED transferCause

\* One iteration of the loop over matchedPaths: getFileSize of the next path
\* returns a size or throws; a throw is logged and the path is skipped.
ResolveStat ==
    /\ pc = "resolve_stat"
    /\ LET filePath == matchedPaths[statCalls + 1]
           last == statCalls + 1 = Len(matchedPaths)
       IN /\ statCalls' = statCalls + 1
          /\ \/ \E size \in FileSizes :
                  /\ files' = Append(files, [path |-> filePath, size |-> size,
                                             fileName |-> basename(PathName(filePath))])
                  /\ totalSize' = totalSize + size
                  /\ UNCHANGED statFailed
             \/ /\ statFailed' = statFailed \cup {filePath}
                /\ UNCHANGED <<files, totalSize>>
          /\ IF last THEN Resolve(PatternResolution(files', totalSize'))
             ELSE UNCHANGED <<pc, result, settled, thrown>>
    /\ UNCHANGED <<op, opts, matchedPaths, startMissing, retryConfig, missingFiles, remoteCalls>>
    /\ UNCHANGED retryVars
    /\ UNCHANGED multiVars
    /\ UNCHANGED downloadVars
    /\ UNCHANGED commandVars
    /\ UNCHANGED authVars
    /\ UNCHANGED groupVars
    /\ UNCHANGED blobVars
    /\ UNCHANGED mutatedFrom
    /\ UNCHANGED transferCause

(***************************************************************************)
(* The upload command: execute() validates the repository id and the file  *)
(* pattern before it resolves the pattern or touches the client.           *)
(***************************************************************************)
\* options.token and process.env.HF_TOKEN.
FlagTokens == {None, Some("flag")}
EnvTokens == {None, Some("env")}

\* execute() calls setToken(options.token) when the flag is given; getToken()
\* then yields the flag token, else the environment token, else null.
getToken(flag, env) == IF flag # None THEN flag ELSE env

Patterns == {PatEmpty, PatBlank, PatEtc, PatEtcUpper, PatRootAll, PatTilde, PatTxt, PatTmp}

\* The error prepareUploadOptions throws for the arguments, as an option.
commandGuard(repoId, pattern) ==
    IF IsBlank(repoId) THEN Some(createError("validation_error", MsgRepoRequired))
    ELSE IF ~isValidRepoId(repoId)
      THEN Some(createError("validation_error", MsgBadRepoFormat \o repoId))
    ELSE IF ~isValidPattern(pattern)
      THEN Some(createError("validation_error", MsgUnsafePattern \o pattern))
    ELSE None

UploadCommandExecute ==
    /\ pc = "idle"
    /\ \E flag \in FlagTokens, env \in EnvTokens : token' = getToken(flag, env)
    /\ UNCHANGED <<tokenCheck, resolved, clientCalls>>
    /\ \E repoId \in RepoIds, pattern \in Patterns :
         LET invalid == commandGuard(repoId, pattern) IN
         /\ op' = "uploadCommand"
         /\ opts' = [NoOpts EXCEPT !.repoId = repoId, !.pattern = pattern]
         /\ IF invalid # None THEN Reject(The(invalid))
            ELSE /\ pc' = "command_resolve"
                 /\ UNCHANGED <<result, settled, thrown>>
    /\ UNCHANGED <<startMissing, retryConfig, missingFiles, remoteCalls>>
    /\ UNCHANGED retryVars
    /\ UNCHANGED multiVars
    /\ UNCHANGED downloadVars
    /\ UNCHANGED resolveVars
    /\ UNCHANGED authVars
    /\ UNCHANGED groupVars
    /\ UNCHANGED blobVars
    /\ UNCHANGED mutatedFrom
    /\ UNCHANGED transferCause

(***************************************************************************)
(* The commands.  A client call made by a command is one step that yields  *)
(* one of the values the client can return.                                *)
(***************************************************************************)
MsgFileMissing == <<"F", "i", "l", "e", " ", "d", "o", "e", "s", " ", "n", "o", "t", " ", "e", "x", "i", "s", "t", ":", " ">>
MsgNoToken == <<"N", "o", " ", "a", "u", "t", "h", "e", "n", "t", "i", "c", "a", "t", "i", "o", "n", " ", "t", "o", "k", "e", "n", " ", "f", "o", "u", "n", "d">>
MsgBadToken == <<"I", "n", "v", "a", "l", "i", "d", " ", "a", "u", "t", "h", "e", "n", "t", "i", "c", "a", "t", "i", "o", "n", " ", "t", "o", "k", "e", "n">>
MsgRepoUnreachable == <<"R", "e", "p", "o", "s", "i", "t", "o", "r", "y", " ", "n", "o", "t", " ", "f", "o", "u", "n", "d", " ", "o", "r", " ", "n", "o", "t", " ", "a", "c", "c", "e", "s", "s", "i", "b", "l", "e", ":", " ">>
MsgUploadFailed == <<"U", "p", "l", "o", "a", "d", " ", "f", "a", "i", "l", "e", "d">>
MsgDownloadFailed == <<"D", "o", "w", "n", "l", "o", "a", "d", " ", "f", "a", "i", "l", "e", "d">>
MsgFileNotFound == <<"F", "i", "l", "e", " ", "n", "o", "t", " ", "f", "o", "u", "n", "d", ":", " ">>
MsgAccessDenied == <<"A", "c", "c", "e", "s", "s", " ", "d", "e", "n", "i", "e", "d", " ", "t", "o", " ", "t", "h", "e", " ", "r", "e", "p", "o", "s", "i", "t", "o", "r", "y", " ", "o", "r", " ", "f", "i", "l", "e">>
MsgNoMatch == <<"N", "o", " ", "f", "i", "l", "e", "s", " ", "m", "a", "t", "c", "h", "e", "d", " ", "t", "h", "e", " ", "p", "a", "t", "t", "e", "r", "n", ":", " ">>
StrNotFound == <<"n", "o", "t", " ", "f", "o", "u", "n", "d">>
TypeUpper == <<"M", "O", "D", "E", "L">>

\* options.repoType as typed on the command line; <<>> when it is left out.
CommandRepoTypes == {<<>>, TypeModel, TypeUpper, TypeBogus}

\* validateRepoType: the normalized type, as an option; None when it throws.
validateRepoType(repoType) ==
    IF repoType = <<>> THEN Some(TypeModel)
    ELSE IF toLowerCase(repoType) \in {TypeModel, TypeDataset, TypeSpace}
      THEN Some(toLowerCase(repoType))
    ELSE None

\* The error prepareUploadOptions throws before it turns to authentication.
prepareUploadOptions(o) ==
    IF IsBlank(o.repoId) THEN Some(createError("validation_error", MsgRepoRequired))
    ELSE IF ~isValidRepoId(o.repoId)
      THEN Some(createError("validation_error", MsgBadRepoFormat \o o.repoId))
    ELSE IF IsBlank(PathName(o.filePath))
      THEN Some(createError("validation_error", MsgPathRequired))
    ELSE IF ~pathExists(o.filePath)
      THEN Some(createError("file_not_found", MsgFileMissing \o PathName(o.filePath)))
    ELSE IF validateRepoType(o.repoType) = None
      THEN Some(createError("validation_error", MsgBadType \o o.repoType))
    ELSE None

\* The error prepareDownloadOptions throws.
prepareDownloadOptions(o) ==
    IF IsBlank(o.repoId) THEN Some(createError("validation_error", MsgRepoRequired))
    ELSE IF ~isValidRepoId(o.repoId)
      THEN Some(createError("validation_error", MsgBadRepoFormat \o o.repoId))
    ELSE IF IsBlank(PathName(o.filePath))
      THEN Some(createError("validation_error", MsgPathRequired))
    ELSE IF validateRepoType(o.repoType) = None
      THEN Some(createError("validation_error", MsgBadType \o o.repoType))
    ELSE None

\* One client call in the history of a command.
ClientCall(call, paths, returned) == [call |-> call, paths |-> paths, returned |-> returned]

\* What uploadFile, uploadFiles and downloadFile resolve to, as far as a
\* command looks at it: success, and the error message if there is one.
TransferResults ==
    {[success |-> TRUE, error |-> None],
     [success |-> FALSE, error |-> Some(MsgRepoOrFile)],
     [success |-> FALSE, error |-> Some(MsgAuthFailed)],
     [success |-> FALSE, error |-> None]}

\* UploadCommand.execute up to the authentication step.
UploadExecute ==
    /\ pc = "idle"
    /\ op' = "upload"
    /\ \E flag \in FlagTokens, env \in EnvTokens : token' = getToken(flag, env)
    /\ \E gone \in SUBSET {1} : missingFiles' = gone /\ startMissing' = gone
    /\ \E repoId \in RepoIds, filePath \in SinglePaths, repoType \in CommandRepoTypes :
         LET o == [NoOpts EXCEPT !.repoId = repoId, !.filePath = filePath,
                                 !.repoType = repoType]
             invalid == prepareUploadOptions(o)'
         IN /\ opts' = o
            /\ IF invalid # None THEN Reject(The(invalid))
               ELSE /\ pc' = "command_auth"
                    /\ UNCHANGED <<result, settled, thrown>>
    /\ tokenCheck' = "none"
    /\ resolved' = None
    /\ clientCalls' = <<>>
    /\ UNCHANGED <<retryConfig, remoteCalls>>
    /\ UNCHANGED retryVars
    /\ UNCHANGED multiVars
    /\ UNCHANGED downloadVars
    /\ UNCHANGED resolveVars
    /\ UNCHANGED authVars
    /\ UNCHANGED groupVars
    /\ UNCHANGED blobVars
    /\ UNCHANGED mutatedFrom
    /\ UNCHANGED transferCause

\* Variant: a token that validateToken rejected is used all the same.
ValidateAuthenticationKeepsRejected ==
    /\ pc = "command_auth"
    /\ IF token = None
         THEN /\ Reject(createError("auth_error", MsgNoToken))
              /\ UNCHANGED tokenCheck
         ELSE \E isValid \in BOOLEAN :
                /\ tokenCheck' = IF isValid THEN "accepted" ELSE "rejected"
                /\ pc' = "command_validate"
                /\ UNCHANGED <<result, settled, thrown>>
    /\ UNCHANGED <<op, opts, startMissing, retryConfig, missingFiles, remoteCalls, token,
                   resolved, clientCalls>>
    /\ UNCHANGED retryVars
    /\ UNCHANGED multiVars
    /\ UNCHANGED downloadVars
    /\ UNCHANGED resolveVars
    /\ UNCHANGED authVars
    /\ UNCHANGED groupVars
    /\ UNCHANGED blobVars
    /\ UNCHANGED mutatedFrom
    /\ UNCHANGED transferCause

\* authManager.validateAuthentication(true): no token throws; otherwise
\* validateToken asks the hub (whoAmI), and a rejected token throws.
ValidateAuthentication ==
    /\ pc = "command_auth"
    /\ IF token = None
         THEN /\ Reject(createError("auth_error", MsgNoToken))
              /\ UNCHANGED tokenCheck
         ELSE \E isValid \in BOOLEAN :
                /\ tokenCheck' = IF isValid THEN "accepted" ELSE "rejected"
                /\ IF isValid
                     THEN /\ pc' = "command_validate"
                          /\ UNCHANGED <<result, settled, thrown>>
                     ELSE Reject(createError("auth_error", MsgBadToken))
    /\ UNCHANGED <<op, opts, startMissing, retryConfig, missingFiles, remoteCalls, token,
                   resolved, clientCalls>>
    /\ UNCHANGED retryVars
    /\ UNCHANGED multiVars
    /\ UNCHANGED downloadVars
    /\ UNCHANGED resolveVars
    /\ UNCHANGED authVars
    /\ UNCHANGED groupVars
    /\ UNCHANGED blobVars
    /\ UNCHANGED mutatedFrom
    /\ UNCHANGED transferCause

\* Variant: the upload goes on when the repository is not valid.
PerformUploadValidateGoesOn ==
    /\ pc = "command_validate"
    /\ op \in {"upload", "uploadCommand"}
    /\ \/ /\ Reject(JsError(MsgNoEntry))
          /\ UNCHANGED clientCalls
       \/ \E isValidRepo \in BOOLEAN :
            /\ clientCalls' = Append(clientCalls,
                                     ClientCall("validateRepository", <<>>, isValidRepo))
            /\ pc' = "command_transfer"
            /\ UNCHANGED <<result, settled, thrown>>
    /\ UNCHANGED <<op, opts, startMissing, retryConfig, missingFiles, remoteCalls, token,
                   tokenCheck, resolved>>
    /\ UNCHANGED retryVars
    /\ UNCHANGED multiVars
    /\ UNCHANGED downloadVars
    /\ UNCHANGED resolveVars
    /\ UNCHANGED authVars
    /\ UNCHANGED groupVars
    /\ UNCHANGED blobVars
    /\ UNCHANGED mutatedFrom
    /\ UNCHANGED transferCause

\* performUpload, first half: the size of the file is read (it may throw),
\* then validateRepository is awaited; false makes the command throw.
PerformUploadValidate ==
    /\ pc = "command_validate"
    /\ op \in {"upload", "uploadCommand"}
    /\ \/ /\ Reject(JsError(MsgNoEntry))
          /\ UNCHANGED clientCalls
       \/ \E isValidRepo \in BOOLEAN :
            /\ clientCalls' = Append(clientCalls,
                                     ClientCall("validateRepository", <<>>, isValidRepo))
            /\ IF isValidRepo
                 THEN /\ pc' = "command_transfer"
                      /\ UNCHANGED <<result, settled, thrown>>
                 ELSE Reject(createError("validation_error",
                                         MsgRepoUnreachable \o opts.repoId))
    /\ UNCHANGED <<op, opts, startMissing, retryConfig, missingFiles, remoteCalls, token,
                   tokenCheck, resolved>>
    /\ UNCHANGED retryVars
    /\ UNCHANGED multiVars
    /\ UNCHANGED downloadVars
    /\ UNCHANGED resolveVars
    /\ UNCHANGED authVars
    /\ UNCHANGED groupVars
    /\ UNCHANGED blobVars
    /\ UNCHANGED mutatedFrom
    /\ UNCHANGED transferCause

\* performUpload, second half: uploadFile is awaited and its result judged.
PerformUploadTransfer ==
    /\ pc = "command_transfer"
    /\ op = "upload"
    /\ \E r \in TransferResults :
         /\ clientCalls' = Append(clientCalls,
                                  ClientCall("uploadFile", <<opts.filePath>>, r.success))
         /\ IF r.success THEN Resolve("uploaded")
            ELSE Reject(createError("network_error",
                                    IF r.error # None THEN The(r.error) ELSE MsgUploadFailed))
    /\ UNCHANGED <<op, opts, startMissing, retryConfig, missingFiles, remoteCalls, token,
                   tokenCheck, resolved>>
    /\ UNCHANGED retryVars
    /\ UNCHANGED multiVars
    /\ UNCHANGED downloadVars
    /\ UNCHANGED resolveVars
    /\ UNCHANGED authVars
    /\ UNCHANGED groupVars
    /\ UNCHANGED blobVars
    /\ UNCHANGED mutatedFrom
    /\ UNCHANGED transferCause

\* DownloadCommand.execute up to performDownload; a token is not required.
DownloadExecute ==
    /\ pc = "idle"
    /\ op' = "download"
    /\ \E flag \in FlagTokens, env \in EnvTokens : token' = getToken(flag, env)
    /\ \E repoId \in RepoIds, filePath \in SinglePaths, repoType \in CommandRepoTypes :
         LET o == [NoOpts EXCEPT !.repoId = repoId, !.filePath = filePath,
                                 !.repoType = repoType]
             invalid == prepareDownloadOptions(o)
         IN /\ opts' = o
            /\ IF invalid # None THEN Reject(The(invalid))
               ELSE /\ pc' = "command_validate"
                    /\ UNCHANGED <<result, settled, thrown>>
    /\ tokenCheck' = "none"
    /\ resolved' = None
    /\ clientCalls' = <<>>
    /\ UNCHANGED <<startMissing, retryConfig, missingFiles, remoteCalls>>
    /\ UNCHANGED retryVars
    /\ UNCHANGED multiVars
    /\ UNCHANGED downloadVars
    /\ UNCHANGED resolveVars
    /\ UNCHANGED authVars
    /\ UNCHANGED groupVars
    /\ UNCHANGED blobVars
    /\ UNCHANGED mutatedFrom
    /\ UNCHANGED transferCause

\* performDownload, first half: validateRepository is awaited.
PerformDownloadValidate ==
    /\ pc = "command_validate"
    /\ op = "download"
    /\ \E isValidRepo \in BOOLEAN :
         /\ clientCalls' = Append(clientCalls,
                                  ClientCall("validateRepository", <<>>, isValidRepo))
         /\ IF isValidRepo
              THEN /\ pc' = "command_transfer"
                   /\ UNCHANGED <<result, settled, thrown>>
              ELSE Reject(createError("validation_error", MsgRepoUnreachable \o opts.repoId))
    /\ UNCHANGED <<op, opts, startMissing, retryConfig, missingFiles, remoteCalls, token,
                   tokenCheck, resolved>>
    /\ UNCHANGED retryVars
    /\ UNCHANGED multiVars
    /\ UNCHANGED downloadVars
    /\ UNCHANGED resolveVars
    /\ UNCHANGED authVars
    /\ UNCHANGED groupVars
    /\ UNCHANGED blobVars
    /\ UNCHANGED mutatedFrom
    /\ UNCHANGED transferCause

\* The message performDownload throws for a failed result.
downloadErrorMessage(r) ==
    IF r.error = None THEN MsgDownloadFailed
    ELSE IF Includes(The(r.error), Str404) \/ Includes(The(r.error), StrNotFound)
      THEN MsgFileNotFound \o PathName(opts.filePath)
    ELSE IF Includes(The(r.error), Str403) \/ Includes(The(r.error), Str401)
      THEN MsgAccessDenied
    ELSE The(r.error)

\* performDownload, second half: downloadFile is awaited and its result judged.
PerformDownloadTransfer ==
    /\ pc = "command_transfer"
    /\ op = "download"
    /\ \/ \E r \in TransferResults :
            /\ clientCalls' = Append(clientCalls,
                                     ClientCall("downloadFile", <<opts.filePath>>, r.success))
            /\ transferCause' = None
            /\ IF r.success THEN Resolve("downloaded")
               ELSE Reject(createError("network_error", downloadErrorMessage(r)))
       \/ \E m \in RemoteErrors :
            \* the remote call was rejected with m for good: downloadFile
            \* resolves with what its catch block makes of m
            /\ clientCalls' = Append(clientCalls,
                                     ClientCall("downloadFile", <<opts.filePath>>, FALSE))
            /\ transferCause' = Some(m)
            /\ Reject(createError("network_error",
                                  downloadErrorMessage(DownloadFailure(JsError(m)))))
    /\ UNCHANGED <<op, opts, startMissing, retryConfig, missingFiles, remoteCalls, token,
                   tokenCheck, resolved>>
    /\ UNCHANGED retryVars
    /\ UNCHANGED multiVars
    /\ UNCHANGED downloadVars
    /\ UNCHANGED resolveVars
    /\ UNCHANGED authVars
    /\ UNCHANGED groupVars
    /\ UNCHANGED blobVars
    /\ UNCHANGED mutatedFrom

\* The pattern-aware upload command resolves the pattern: the resolver throws,
\* or yields the files; no file at all makes the command fail.
UploadCommandResolve ==
    /\ pc = "command_resolve"
    /\ \/ \E m \in GlobErrors :
            /\ Reject(resolvePatternCatch(opts.pattern, JsError(m)))
            /\ UNCHANGED resolved
       \/ \E n \in 0..MaxMatched :
            /\ resolved' = Some([i \in 1..n |-> i])
            /\ IF n = 0
                 THEN Reject(createError("file_not_found", MsgNoMatch \o opts.pattern))
                 ELSE /\ pc' = "command_auth"
                      /\ UNCHANGED <<result, settled, thrown>>
    /\ UNCHANGED <<op, opts, startMissing, retryConfig, missingFiles, remoteCalls, token,
                   tokenCheck, clientCalls>>
    /\ UNCHANGED retryVars
    /\ UNCHANGED multiVars
    /\ UNCHANGED downloadVars
    /\ UNCHANGED resolveVars
    /\ UNCHANGED authVars
    /\ UNCHANGED groupVars
    /\ UNCHANGED blobVars
    /\ UNCHANGED mutatedFrom
    /\ UNCHANGED transferCause

\* Variant: every resolution goes to uploadFiles.
dispatchAlwaysMulti(paths) == "uploadFiles"

\* The client method the pattern-aware upload command hands the files to.
dispatch(paths) == IF Len(paths) = 1 THEN "uploadFile" ELSE "uploadFiles"

\* The transfer of the pattern-aware upload command.
UploadCommandDispatch ==
    /\ pc = "command_transfer"
    /\ op = "uploadCommand"
    /\ \E r \in TransferResults :
         /\ clientCalls' = Append(clientCalls, ClientCall(dispatch(The(resolved)), The(resolved),
                                             r.success))
         /\ IF r.success THEN Resolve("uploaded")
            ELSE Reject(createError("network_error",
                                    IF r.error # None THEN The(r.error) ELSE MsgUploadFailed))
    /\ UNCHANGED <<op, opts, startMissing, retryConfig, missingFiles, remoteCalls, token,
                   tokenCheck, resolved>>
    /\ UNCHANGED retryVars
    /\ UNCHANGED multiVars
    /\ UNCHANGED downloadVars
    /\ UNCHANGED resolveVars
    /\ UNCHANGED authVars
    /\ UNCHANGED groupVars
    /\ UNCHANGED blobVars
    /\ UNCHANGED mutatedFrom
    /\ UNCHANGED transferCause

(***************************************************************************)
(* AuthManager: the token cell behind getToken, setToken and clearToken.   *)
(***************************************************************************)
\* Values of a token string; the first is the empty string.
TokenStrings == {"", "hf_a", "hf_b"}

\* JavaScript truthiness of string | null | undefined.
Truthy(t) == t # None /\ t # Some("")

\* Variant: the environment token is returned but not stored.
cacheOfGetTokenNoStore(cached, env) == cached

\* this.token after getToken(): the environment token is stored when there is
\* no truthy token yet.
cacheOfGetToken(cached, env) ==
    IF Truthy(cached) THEN cached
    ELSE IF Truthy(env) THEN env
    ELSE cached

\* The value getToken() returns.
valueOfGetToken(cached, env) ==
    IF Truthy(cached) THEN cached
    ELSE IF Truthy(env) THEN env
    ELSE None

AuthCall(call, arg, returned) == [call |-> call, arg |-> arg, returned |-> returned]

AuthIdle ==
    /\ op = "authManager"
    /\ pc = "auth"
    /\ Len(authLog) <= MaxAuthOps

AuthUnchanged ==
    /\ UNCHANGED <<pc, op, opts, startMissing, retryConfig, missingFiles, result, settled, thrown,
                   remoteCalls>>
    /\ UNCHANGED retryVars
    /\ UNCHANGED multiVars
    /\ UNCHANGED downloadVars
    /\ UNCHANGED resolveVars
    /\ UNCHANGED commandVars
    /\ UNCHANGED blobVars
    /\ UNCHANGED groupVars
    /\ UNCHANGED mutatedFrom
    /\ UNCHANGED transferCause

\* new AuthManager(), in a process with or without HF_TOKEN; the log starts
\* with the value of HF_TOKEN.
AuthManagerNew ==
    /\ pc = "idle"
    /\ retryConfig.maxRetries = 0      \* the manager never reads the client's configuration
    /\ op' = "authManager"
    /\ pc' = "auth"
    /\ opts' = NoOpts
    /\ \E env \in {None} \cup {Some(t) : t \in TokenStrings} :
         /\ envToken' = env
         /\ authLog' = <<AuthCall("env", env, None)>>
    /\ cachedToken' = None
    /\ tokenSource' = "none"
    /\ UNCHANGED <<startMissing, retryConfig, missingFiles, result, settled, thrown, remoteCalls>>
    /\ UNCHANGED retryVars
    /\ UNCHANGED multiVars
    /\ UNCHANGED downloadVars
    /\ UNCHANGED resolveVars
    /\ UNCHANGED commandVars
    /\ UNCHANGED blobVars
    /\ UNCHANGED groupVars
    /\ UNCHANGED mutatedFrom
    /\ UNCHANGED transferCause

\* The process environment changes: HF_TOKEN is set, changed or deleted.
SetEnv ==
    /\ AuthIdle
    /\ \E env \in ({None} \cup {Some(t) : t \in TokenStrings}) \ {envToken} :
         /\ envToken' = env
         /\ authLog' = Append(authLog, AuthCall("env", env, None))
    /\ UNCHANGED <<cachedToken, tokenSource>>
    /\ AuthUnchanged

GetToken ==
    /\ AuthIdle
    /\ cachedToken' = cacheOfGetToken(cachedToken, envToken)
    /\ tokenSource' = IF ~Truthy(cachedToken) /\ Truthy(envToken) THEN "env" ELSE tokenSource
    /\ authLog' = Append(authLog, AuthCall("getToken", None,
                                           valueOfGetToken(cachedToken, envToken)))
    /\ UNCHANGED envToken
    /\ AuthUnchanged

SetToken ==
    /\ AuthIdle
    /\ \E t \in TokenStrings :
         /\ cachedToken' = Some(t)
         /\ authLog' = Append(authLog, AuthCall("setToken", Some(t), None))
    /\ tokenSource' = "flag"
    /\ UNCHANGED envToken
    /\ AuthUnchanged

ClearToken ==
    /\ AuthIdle
    /\ cachedToken' = None
    /\ tokenSource' = "none"
    /\ authLog' = Append(authLog, AuthCall("clearToken", None, None))
    /\ UNCHANGED envToken
    /\ AuthUnchanged

(***************************************************************************)
(* BatchManager.processBatches: groups of at most maxConcurrency batches.  *)
(* A processor call starts when processor(batch, progress) is evaluated    *)
(* and is in flight until its promise settles.                             *)
(***************************************************************************)
DEFAULT_MAX_CONCURRENCY == 1
DEFAULT_DELAY_MS == 100

\* The options of a call: batchSize, maxConcurrency (absent: the default) and
\* delayBetweenBatches (absent: the default).
BatchOptionInputs ==
    [files : 0..MaxGroupFiles,
     batchSize : {1, 2, 3},
     maxConcurrency : {DEFAULT_MAX_CONCURRENCY, 2},
     delayBetweenBatches : {0, DEFAULT_DELAY_MS}]

\* The files of a call are told apart by their position in the list.
fileList(n) == [i \in 1..n |-> i]

\* Array.prototype.slice(start, end) for 0 <= start <= end.
slice(list, start, end) == SubSeq(list, start + 1, Min(end, Len(list)))

\* Variant: the last batch is kept only when it is full.
RECURSIVE createBatchesFullOnly(_, _, _)
createBatchesFullOnly(list, size, i) ==
    IF i + size > Len(list) THEN <<>>
    ELSE <<slice(list, i, i + size)>> \o createBatchesFullOnly(list, size, i + size)

\* createBatches: for (i = 0; i < files.length; i += batchSize) the slice
\* files.slice(i, i + batchSize) is pushed; i is the loop variable.
RECURSIVE createBatches(_, _, _)
createBatches(list, size, i) ==
    IF i >= Len(list) THEN <<>>
    ELSE <<slice(list, i, i + size)>> \o createBatches(list, size, i + size)

\* batches, totalBatches and batches[j].length (j is 0-based).
batches == createBatches(fileList(batchOptions.files), batchOptions.batchSize, 0)
groupBatches == Len(batches)
batchLength(j) == Len(batches[j + 1])

\* Variant: the group holds one batch more.
endIndexOneMore(first) == Min(first + batchOptions.maxConcurrency + 1, groupBatches)

\* endIndex = Math.min(groupIndex + maxConcurrency, totalBatches).
endIndex(first) == Min(first + batchOptions.maxConcurrency, groupBatches)

RECURSIVE lengthsFrom(_, _)
lengthsFrom(j, end) == IF j >= end THEN 0 ELSE batchLength(j) + lengthsFrom(j + 1, end)

\* Variant: only the first batch of the group is counted.
processedAfterGroupFirstOnly(first) == groupProcessed + batchLength(first)

\* filesProcessed after the loop that adds batches[j].length for the group.
processedAfterGroup(first) == groupProcessed + lengthsFrom(first, endIndex(first))

\* Variant: the loop goes on while one call is still in flight.
allSettledButOne(calls) == Cardinality(calls) <= 1

\* await Promise.all(batchPromises) resolves: every call has resolved.
allSettled(calls) == calls = {}

\* Variant: the delay is waited after every group.
sleepsAfterEveryGroup(first) == batchOptions.delayBetweenBatches > 0

\* if (delayBetweenBatches > 0 && endIndex < totalBatches).
sleepsAfterGroup(first) ==
    batchOptions.delayBetweenBatches > 0 /\ endIndex(first) < groupBatches

GroupEvent(event, batch, progress, flying) ==
    [event |-> event, batch |-> batch, filesProcessed |-> progress, inFlight |-> flying]

\* The events of the inner for loop: processor(batches[j], progress) for j from
\* first to end - 1, each with the filesProcessed of the moment.
RECURSIVE startEvents(_, _, _)
startEvents(j, end, flying) ==
    IF j >= end THEN <<>>
    ELSE <<GroupEvent("start", j, groupProcessed, flying)>> \o startEvents(j + 1, end, flying + 1)

GroupUnchanged ==
    /\ UNCHANGED <<op, opts, startMissing, retryConfig, missingFiles, remoteCalls>>
    /\ UNCHANGED retryVars
    /\ UNCHANGED multiVars
    /\ UNCHANGED downloadVars
    /\ UNCHANGED resolveVars
    /\ UNCHANGED commandVars
    /\ UNCHANGED blobVars
    /\ UNCHANGED authVars
    /\ UNCHANGED transferCause

\* processBatches(files, processor, options) up to the outer for loop.
ProcessBatches ==
    /\ pc = "idle"
    /\ retryConfig.maxRetries = 0      \* the manager makes no use of the client
    /\ op' = "processBatches"
    /\ opts' = NoOpts
    /\ \E o \in BatchOptionInputs :
         /\ batchOptions' = o
         /\ IF o.files = 0 THEN Resolve(<<>>)
            ELSE /\ pc' = "group_start"
                 /\ UNCHANGED <<result, settled, thrown>>
    /\ groupIndex' = 0
    /\ inFlight' = {}
    /\ groupProcessed' = 0
    /\ results' = <<>>
    /\ groupLog' = <<>>
    /\ UNCHANGED <<startMissing, retryConfig, missingFiles, remoteCalls>>
    /\ UNCHANGED retryVars
    /\ UNCHANGED multiVars
    /\ UNCHANGED downloadVars
    /\ UNCHANGED resolveVars
    /\ UNCHANGED commandVars
    /\ UNCHANGED blobVars
    /\ UNCHANGED authVars
    /\ UNCHANGED mutatedFrom
    /\ UNCHANGED transferCause

\* The inner for loop: every processor call of the group is started, then
\* processBatches awaits Promise.all.
GroupStart ==
    /\ pc = "group_start"
    /\ inFlight' = inFlight \cup (groupIndex..(endIndex(groupIndex) - 1))
    /\ groupLog' = groupLog \o startEvents(groupIndex, endIndex(groupIndex), Cardinality(inFlight))
    /\ pc' = "group_await"
    /\ UNCHANGED <<batchOptions, groupIndex, groupProcessed, results, result, settled, thrown>>
    /\ UNCHANGED mutatedFrom
    /\ GroupUnchanged

\* The promise of one processor call settles.  A rejection rejects
\* Promise.all and with it processBatches, whatever is still in flight.
ProcessorSettles ==
    /\ pc = "group_await"
    /\ \E j \in inFlight :
         /\ inFlight' = inFlight \ {j}
         /\ \/ /\ groupLog' = Append(groupLog, GroupEvent("end", j, groupProcessed,
                                                           Cardinality(inFlight)))
               /\ UNCHANGED <<pc, result, settled, thrown>>
            \/ /\ groupLog' = Append(groupLog, GroupEvent("rejected", j, groupProcessed,
                                                           Cardinality(inFlight)))
               /\ Reject(JsError(MsgServer))
    /\ UNCHANGED <<batchOptions, groupIndex, groupProcessed, results>>
    /\ UNCHANGED mutatedFrom
    /\ GroupUnchanged

\* Promise.all has resolved: results, filesProcessed, then the delay or the
\* next turn of the outer loop.
GroupDone ==
    /\ pc = "group_await"
    /\ allSettled(inFlight)
    /\ results' = results \o [k \in 1..(endIndex(groupIndex) - groupIndex) |-> groupIndex + k - 1]
    /\ groupProcessed' = processedAfterGroup(groupIndex)
    /\ mutatedFrom' = mutatedFrom \cup {"loop"}
    /\ IF sleepsAfterGroup(groupIndex)
         THEN /\ pc' = "group_sleep"
              /\ groupLog' = Append(groupLog, GroupEvent("sleep", endIndex(groupIndex) - 1,
                                                        groupProcessed', Cardinality(inFlight)))
              /\ UNCHANGED <<groupIndex, result, settled, thrown>>
         ELSE /\ groupIndex' = groupIndex + batchOptions.maxConcurrency
              /\ UNCHANGED groupLog
              /\ IF groupIndex' < groupBatches
                   THEN pc' = "group_start" /\ UNCHANGED <<result, settled, thrown>>
                   ELSE Resolve(results')
    /\ UNCHANGED <<batchOptions, inFlight>>
    /\ GroupUnchanged

\* sleep(delayBetweenBatches) resolves: groupIndex += maxConcurrency and the loop test.
GroupWake ==
    /\ pc = "group_sleep"
    /\ groupIndex' = groupIndex + batchOptions.maxConcurrency
    /\ IF groupIndex' < groupBatches
         THEN pc' = "group_start" /\ UNCHANGED <<result, settled, thrown>>
         ELSE Resolve(results)
    /\ UNCHANGED <<batchOptions, inFlight, groupProcessed, results, groupLog>>
    /\ UNCHANGED mutatedFrom
    /\ GroupUnchanged

(***************************************************************************)
(* Process signals                                                         *)
(***************************************************************************)
\* Where a download can be when a signal arrives: before or between the
\* invocations of the remote call, in a retry wait, or in streamBlobToFile.
InterruptPoints == {"download_ensure", "retry_call", "retry_sleep", "stream_open",
                    "streaming", "stream_unlink"}

\* The handler of SIGINT and of SIGTERM: cleanup(), which clears the cached
\* token, then exitWithCode(0), which calls process.exit.  The pending
\* promises of the operation are dropped with the process; nothing else runs.
Interrupt ==
    /\ op = "downloadFile"
    /\ pc \in InterruptPoints
    /\ pc' = "exited"
    /\ cachedToken' = None
    /\ tokenSource' = "none"
    /\ sleepFor' = 0                   \* the timer of a pending sleep goes with the process
    /\ UNCHANGED <<op, opts, startMissing, retryConfig, missingFiles, result, settled, thrown,
                   remoteCalls, envToken, authLog>>
    /\ UNCHANGED <<attempt, lastError, attempts, retryOutcome, response, rethrown, waits>>
    /\ UNCHANGED multiVars
    /\ UNCHANGED downloadVars
    /\ UNCHANGED resolveVars
    /\ UNCHANGED commandVars
    /\ UNCHANGED groupVars
    /\ UNCHANGED blobVars
    /\ UNCHANGED mutatedFrom
    /\ UNCHANGED transferCause

(***************************************************************************)
(* The environment: a local file is removed while an operation runs.       *)
(***************************************************************************)
\* The filesystem is read only by pathExists and stat, so a removal at any
\* other moment is the same as a removal just before the next of these reads.
Vanish ==
    /\ pc \in {"upload_stat", "batch_exists", "batch_stat"}
    /\ \E f \in ProbeFiles \ missingFiles : missingFiles' = missingFiles \cup {f}
    /\ UNCHANGED <<pc, op, opts, startMissing, retryConfig, result, settled, thrown, remoteCalls>>
    /\ UNCHANGED retryVars
    /\ UNCHANGED multiVars
    /\ UNCHANGED downloadVars
    /\ UNCHANGED resolveVars
    /\ UNCHANGED commandVars
    /\ UNCHANGED authVars
    /\ UNCHANGED groupVars
    /\ UNCHANGED blobVars
    /\ UNCHANGED mutatedFrom
    /\ UNCHANGED transferCause

Next ==
    \/ UploadFile
    \/ UploadFileStat
    \/ UploadBlobRead
    \/ UploadBlobFails
    \/ UploadBlobDone
    \/ UploadFileAttempt
    \/ ValidateRepository
    \/ ListFilesAttempt
    \/ UploadFiles
    \/ BatchPathExists
    \/ BatchStat
    \/ UploadBatchAttempt
    \/ DownloadFile
    \/ DownloadEnsureDir
    \/ DownloadAttempt
    \/ StreamOpen
    \/ StreamChunk
    \/ StreamEnd
    \/ StreamFails
    \/ StreamCleanup
    \/ UploadCommandExecute
    \/ ResolvePattern
    \/ UploadExecute
    \/ ValidateAuthentication
    \/ PerformUploadValidate
    \/ PerformUploadTransfer
    \/ DownloadExecute
    \/ PerformDownloadValidate
    \/ PerformDownloadTransfer
    \/ UploadCommandResolve
    \/ UploadCommandDispatch
    \/ ResolveStat
    \/ AuthManagerNew
    \/ SetEnv
    \/ GetToken
    \/ SetToken
    \/ ClearToken
    \/ ProcessBatches
    \/ GroupStart
    \/ ProcessorSettles
    \/ GroupDone
    \/ GroupWake
    \/ RetryWake
    \/ Interrupt
    \/ Vanish

Spec == Init /\ [][Next]_vars

\* processBatches under the event loop: a continuation whose promise has
\* settled is run, the timer of sleep fires, and every processor call settles.
LiveSpec ==
    /\ Spec
    /\ WF_vars(GroupStart)
    /\ WF_vars(ProcessorSettles)
    /\ WF_vars(GroupDone)
    /\ WF_vars(GroupWake)

(***************************************************************************)
(* Properties.                                                             *)
(***************************************************************************)
InRetry == pc \in {"retry_call", "retry_sleep"}

\* The batch loop of uploadFiles has run to its end.
MultiDone == op = "uploadFiles" /\ pc = "done" /\ batchLog # <<>>

\* Batches for which a remote call was issued.
DispatchedBatches ==
    Cardinality({b \in 1..Len(batchLog) : batchLog[b] \in {"uploaded", "failed"}})

\* 1-based index of the batch that file f belongs to.
BatchOfFile(f) == ((f - 1) \div 1000) + 1

\* Entries of failedFiles that belong to a batch whose processing threw.
FailedBatchEntries ==
    Cardinality({j \in 1..Len(failedFiles) :
                    batchLog[BatchOfFile(failedFiles[j])] \in {"failed", "aborted"}})

\* C1: with maxRetries = k, an operation that fails on every attempt with a
\* retryable error is invoked exactly k + 1 times, and then withRetry fails:
\* it never invokes more than k + 1 times, it only waits for another attempt
\* while fewer than k + 1 were made, and when it throws a retryable error
\* exactly k + 1 invocations were made.
RetryTermination ==
    /\ attempts <= retryConfig.maxRetries + 1
    /\ (pc = "retry_sleep" => attempts <= retryConfig.maxRetries)
    /\ (retryOutcome = "threw" /\ ~shouldNotRetry(lastError)
           => attempts = retryConfig.maxRetries + 1)

RetryTerminationWitness ==
    /\ retryOutcome = "threw"
    /\ ~shouldNotRetry(lastError)
    /\ retryConfig.maxRetries = 2
    /\ attempts = 3

Classified4xx(error) ==
    \/ Includes(error.message, Str401) \/ Includes(error.message, Str403)
    \/ Includes(error.message, Str400) \/ Includes(error.message, Str404)

\* C2: once an attempt has failed with an error classified as 401, 403, 400
\* or 404, withRetry has thrown and makes no further attempt; when that was
\* the first attempt the operation was invoked exactly once, whatever
\* maxRetries is.
NoRetryOnTerminal ==
    Classified4xx(lastError) =>
        /\ retryOutcome = "threw"
        /\ ~InRetry
        /\ (attempt = 0 => attempts = 1)

NoRetryOnTerminalWitness ==
    /\ Includes(lastError.message, Str404)
    /\ retryOutcome = "threw"
    /\ retryConfig.maxRetries = 2
    /\ attempts = 1

\* C3 (as stated): a multi-file upload of N files makes exactly ceil(N / 1000)
\* remote upload calls, none with more than 1000 files.
BatchCallCountAsStated ==
    MultiDone => /\ remoteCalls = Ceil(totalFiles, 1000)
                 /\ maxCallFiles <= 1000

\* C3 (amended): every one of the ceil(N / 1000) batches is processed, a remote
\* call is issued for each batch except those left with no file to send or
\* whose preparation threw, each issued call is attempted between once and
\* maxRetries + 1 times, and no call receives more than 1000 files.
BatchCallBound ==
    (op = "uploadFiles" /\ opts.filePaths # None) =>
        /\ maxCallFiles <= 1000
        /\ Len(batchLog) <= Ceil(totalFiles, 1000)
        /\ (MultiDone =>
              /\ Len(batchLog) = Ceil(totalFiles, 1000)
              /\ DispatchedBatches <= remoteCalls
              /\ remoteCalls <= DispatchedBatches * (retryConfig.maxRetries + 1)
              /\ ((\A b \in 1..Len(batchLog) : batchLog[b] \notin {"skipped", "aborted"})
                     => DispatchedBatches = Ceil(totalFiles, 1000)))

BatchCallBoundWitness ==
    /\ MultiDone
    /\ totalFiles = 1001
    /\ batchLog = <<"uploaded", "uploaded">>
    /\ maxCallFiles = 1000
    /\ remoteCalls = 2

\* C4 (as stated): when every input file exists as the upload starts,
\* filesUploaded plus the failedFiles entries of failed batches is totalFiles.
PartialAccountingAsStated ==
    (MultiDone /\ startMissing \cap 1..totalFiles = {})
        => The(result).filesUploaded + FailedBatchEntries = totalFiles

\* C4 (amended): when every input file exists at the existence check of its
\* batch, filesUploaded plus the number of failedFiles entries belonging to
\* failed batches equals totalFiles, whatever subset of batches fails.
PartialAccounting ==
    (MultiDone /\ missingSeen = {})
        => The(result).filesUploaded + FailedBatchEntries = totalFiles

PartialAccountingWitness ==
    /\ MultiDone
    /\ missingSeen = {}
    /\ totalFiles = 1500
    /\ batchLog = <<"failed", "uploaded">>
    /\ The(result).filesUploaded = 500

\* C5: when the remote call of a batch fails after its retries, every file of
\* the batch is in failedFiles and the later batches are still processed;
\* 1500 files with batch 1 uploaded and batch 2 failed give success = true,
\* filesUploaded = 1000, totalFiles = 1500, failedFiles = files 1001..1500.
BatchFailureIsolation ==
    MultiDone =>
        /\ Len(batchLog) = Ceil(totalFiles, 1000)
        /\ LET recorded == {failedFiles[j] : j \in 1..Len(failedFiles)} IN
           \A b \in 1..Len(batchLog) :
              batchLog[b] = "failed" =>
                  LET batch == ((b - 1) * 1000 + 1)..Min(b * 1000, totalFiles)
                  IN  recorded \cap batch = batch
        /\ (totalFiles = 1500 /\ batchLog = <<"uploaded", "failed">> /\ missingSeen = {}
              => /\ The(result).success
                 /\ The(result).filesUploaded = 1000
                 /\ The(result).totalFiles = 1500
                 /\ The(result).failedFiles = Some([i \in 1..500 |-> 1000 + i]))

BatchFailureIsolationWitness ==
    /\ MultiDone
    /\ totalFiles = 1500
    /\ batchLog = <<"failed", "uploaded">>
    /\ missingSeen = {}
    /\ The(result).failedFiles = Some([i \in 1..1000 |-> i])
    /\ The(result).filesUploaded = 500

\* The stream of a download failed after bytes were written to a destination
\* that did not exist before the call, and the call has returned.
StreamFailedAfterWrite ==
    /\ op = "downloadFile"
    /\ settled # "pending"
    /\ streamError # None
    /\ totalBytes >= 1
    /\ destBefore = "absent"

MultiSuccessIffUploaded ==
    (op = "uploadFiles" /\ settled = "resolved") =>
        /\ The(result).success <=> The(result).filesUploaded > 0
        /\ (The(result).filesUploaded > 0 /\ The(result).filesUploaded < totalFiles
              => /\ The(result).success
                 /\ The(result).failedFiles # None
                 /\ Len(The(The(result).failedFiles)) > 0)

MultiSuccessIffUploadedWitness ==
    /\ MultiDone
    /\ The(result).success
    /\ The(result).filesUploaded = 1000
    /\ totalFiles = 1001
    /\ The(result).failedFiles = Some(<<1001>>)

\* C8: uploadFile, uploadFiles and downloadFile never reject: every failure
\* is returned as a result with success = false.
NeverRejects ==
    op \in {"uploadFile", "uploadFiles", "downloadFile"} => settled # "rejected"

BlankString(s) == \A i \in 1..Len(s) : s[i] = " "

\* The input of the running operation fails validation.
InvalidInput ==
    \/ /\ op \in {"uploadFile", "downloadFile"}
       /\ \/ BlankString(opts.repoId)
          \/ BlankString(PathName(opts.filePath))
          \/ opts.repoType \notin {TypeModel, TypeDataset, TypeSpace}
    \/ /\ op = "uploadFiles"
       /\ \/ BlankString(opts.repoId)
          \/ opts.repoType \notin {TypeModel, TypeDataset, TypeSpace}
          \/ /\ opts.filePaths # None
             /\ The(opts.filePaths).blankAt \in 1..The(opts.filePaths).n
    \/ /\ op = "uploadCommand"
       /\ ~isValidPattern(opts.pattern)

OperationFailed ==
    \/ settled = "rejected"
    \/ settled = "resolved" /\ ~The(result).success

ProbeNeverThrows ==
    op = "validateRepository" =>
        /\ settled # "rejected"
        /\ (pc = "done" =>
              /\ settled = "resolved"
              /\ (The(result) = TRUE <=> retryOutcome = "returned")
              /\ (retryOutcome = "threw" => The(result) = FALSE))

ProbeNeverThrowsWitness ==
    /\ op = "validateRepository"
    /\ pc = "done"
    /\ result = Some(FALSE)
    /\ Includes(lastError.message, Str404)

\* The category the taxonomy assigns to a failure message, tested in order.
CategoryOf(message) ==
    IF \/ Includes(message, Str401) \/ Includes(message, Str403)
       \/ Includes(message, StrAuthentication) THEN "auth_error"
    ELSE IF Includes(message, Str404) THEN "file_not_found"
    ELSE IF Includes(message, Str429) \/ Includes(message, StrRateLimit) THEN "rate_limit_error"
    ELSE IF Includes(message, StrENOENT) \/ Includes(message, StrEACCES) THEN "permission_error"
    ELSE "network_error"

\* The message each category puts in a failure result.
CategoryMessage(category, message) ==
    CASE category = "auth_error" -> MsgAuthFailed
      [] category = "file_not_found" -> MsgRepoOrFile
      [] category = "rate_limit_error" -> MsgRateExceeded
      [] category = "permission_error" -> MsgFsPermission
      [] OTHER -> MsgNetPrefix \o message

\* A single-file transfer ended because its remote call failed for good.
TransportFailed ==
    /\ pc = "done"
    /\ op \in {"uploadFile", "downloadFile"}
    /\ retryOutcome = "threw"

\* C11: a transport failure is put in exactly one category, tested in the
\* order authentication (401, 403, "authentication"), not found (404), rate
\* limit (429, "rate limit"), permission (ENOENT, EACCES), and network for the
\* rest; the failure result carries that category's message, and the network
\* message contains the original one.
ErrorTaxonomy ==
    TransportFailed =>
        LET category == CategoryOf(lastError.message)
            categorized == handleError(lastError)
        IN /\ categorized.type = category
           /\ The(result).error = Some(CategoryMessage(category, lastError.message))
           /\ (category = "network_error"
                 => Includes(The(The(result).error), lastError.message))

ErrorTaxonomyWitness ==
    /\ TransportFailed
    /\ lastError.message = MsgNotFoundAuth
    /\ The(result).error = Some(MsgAuthFailed)

\* C12: when the single-file upload call succeeds and its response carries no
\* commit identifier, uploadFile resolves with success = true and commitSha =
\* "unknown"; a call that succeeded never yields a failure result.
MissingCommitIsUnknown ==
    (pc = "done" /\ op = "uploadFile" /\ retryOutcome = "returned")
        => /\ settled = "resolved"
           /\ The(result).success
           /\ (The(response) = None => The(result).commitSha = Some("unknown"))

MissingCommitIsUnknownWitness ==
    /\ pc = "done"
    /\ op = "uploadFile"
    /\ retryOutcome = "returned"
    /\ The(response) = None
    /\ The(result).success
    /\ The(result).commitSha = Some("unknown")

\* What tells one kind of error from another: its class, its type tag, and
\* whether its message is the one of a failed resolution.
ErrorKind(e) ==
    [isError |-> e.isError, hasType |-> e.hasType, type |-> e.type,
     resolution |-> /\ Len(e.message) >= Len(MsgResolvePrefix)
                    /\ SubSeq(e.message, 1, Len(MsgResolvePrefix)) = MsgResolvePrefix]

ResolveDone == op = "resolvePattern" /\ pc = "done"

\* C13, as stated: a pattern that matches maxFiles + 1 paths fails with an
\* error of another kind than the one raised for a filesystem failure, and no
\* getFileSize call is made before it fails.
PatternCeilingAsStated ==
    (ResolveDone /\ Len(matchedPaths) = opts.maxFiles + 1)
        => /\ settled = "rejected"
           /\ statCalls = 0
           /\ ErrorKind(The(thrown))
                 # ErrorKind(resolvePatternCatch(opts.pattern, JsError(MsgDenied)))

RECURSIVE SumSizes(_)
SumSizes(fs) == IF fs = <<>> THEN 0 ELSE Head(fs).size + SumSizes(Tail(fs))

StatSucceeded(path) == path \notin statFailed

\* C14: a resolution that is returned has totalFiles = files.length and
\* totalSize = the sum of the sizes in files, and files holds, in match order,
\* exactly the matched paths whose getFileSize succeeded; resolvePattern fails
\* only before the first getFileSize call, so a failing getFileSize never
\* makes it fail.
ResolutionAggregates ==
    ResolveDone =>
        /\ (settled = "rejected" => statCalls = 0 /\ statFailed = {})
        /\ (settled = "resolved" =>
              LET r == The(result) IN
              /\ statCalls = Len(matchedPaths)
              /\ r.totalFiles = Len(r.files)
              /\ r.totalSize = SumSizes(r.files)
              /\ [i \in 1..Len(r.files) |-> r.files[i].path]
                    = SelectSeq(matchedPaths, StatSucceeded))

ResolutionAggregatesWitness ==
    /\ ResolveDone
    /\ settled = "resolved"
    /\ statFailed = {2}
    /\ Len(matchedPaths) = 3
    /\ The(result).totalFiles = 2
    /\ The(result).totalSize = 14

IsTransfer(c) == c.call \in {"uploadFile", "uploadFiles", "downloadFile"}

Transfers == SelectSeq(clientCalls, IsTransfer)

ValidateBeforeTransfer ==
    op \in {"upload", "download"} =>
        /\ \A i \in 1..Len(clientCalls) :
              IsTransfer(clientCalls[i]) =>
                  \E j \in 1..(i - 1) :
                      clientCalls[j] = ClientCall("validateRepository", <<>>, TRUE)
        /\ ((\E j \in 1..Len(clientCalls) :
                 clientCalls[j] = ClientCall("validateRepository", <<>>, FALSE))
              => pc = "done" /\ settled = "rejected" /\ Transfers = <<>>)

ValidateBeforeTransferWitness ==
    /\ op = "upload"
    /\ pc = "done"
    /\ Len(clientCalls) = 2
    /\ clientCalls[1] = ClientCall("validateRepository", <<>>, TRUE)
    /\ clientCalls[2].call = "uploadFile"

\* C17: the upload command makes a client call only with a token that
\* validateToken accepted; when its arguments are in order and there is no
\* token, or validateToken rejected the token, it has failed with an
\* authentication error and made no client call.
TokenBeforeClient ==
    op = "upload" =>
        /\ (clientCalls # <<>> => token # None /\ tokenCheck = "accepted")
        /\ ((pc = "done" /\ prepareUploadOptions(opts) = None
                /\ (token = None \/ tokenCheck = "rejected"))
              => /\ settled = "rejected"
                 /\ The(thrown).type = "auth_error"
                 /\ clientCalls = <<>>)

TokenBeforeClientWitness ==
    /\ op = "upload"
    /\ pc = "done"
    /\ prepareUploadOptions(opts) = None
    /\ token = Some("env")
    /\ tokenCheck = "rejected"
    /\ The(thrown).message = MsgBadToken
    /\ clientCalls = <<>>

\* C18: whenever withRetry has given up, after a terminal error or after the
\* attempt numbered maxRetries, the value it raised is the object the last
\* invocation of the operation raised: same object, same content, not a copy.
RetryPropagatesLastError ==
    retryOutcome = "threw" =>
        /\ rethrown = Some(Caught(attempts, lastError))
        /\ (shouldNotRetry(lastError) \/ attempts = retryConfig.maxRetries + 1)

RetryPropagatesLastErrorWitness ==
    /\ retryOutcome = "threw"
    /\ retryConfig.maxRetries = 2
    /\ attempts = 3
    /\ ~shouldNotRetry(lastError)
    /\ The(rethrown).raisedBy = 3
    /\ The(rethrown).value = lastError

\* C19: every result with success = false that uploadFile, uploadFiles or
\* downloadFile resolved with carries an error message.
FailureCarriesMessage ==
    (/\ op \in {"uploadFile", "uploadFiles", "downloadFile"}
     /\ settled = "resolved"
     /\ ~The(result).success)
        => The(result).error # None

\* C20: a file of more than one chunk is never held whole in memory by
\* uploadFile, neither while its blob is built nor during the remote call.
UploadNeverHoldsWholeFile ==
    (op = "uploadFile" /\ fileChunks > 1) => held < fileChunks

\* The largest member of a set of indices, 0 for the empty set.
LastIndex(S) == IF S = {} THEN 0 ELSE CHOOSE x \in S : \A y \in S : y <= x

\* HF_TOKEN as it was when operation i of the log was made.
EnvAt(i) ==
    LET j == LastIndex({x \in 1..(i - 1) : authLog[x].call = "env"})
    IN IF j = 0 THEN None ELSE authLog[j].arg

IsSet(t) == t # None

\* What the getToken at index i of the log has to return: the argument of
\* the last setToken when no clearToken followed it; else the environment
\* token that the first getToken since then found; else null.  usable(t)
\* says which arguments of setToken count as a token; a setToken of another
\* value leaves the manager without an explicit token.
ExpectedToken(i, usable(_)) ==
    LET j == LastIndex({x \in 1..(i - 1) : authLog[x].call \in {"clearToken", "setToken"}})
        reads == {x \in (j + 1)..i : authLog[x].call = "getToken" /\ Truthy(EnvAt(x))}
    IN IF j > 0 /\ authLog[j].call = "setToken" /\ usable(authLog[j].arg) THEN authLog[j].arg
       ELSE IF reads # {} THEN EnvAt(CHOOSE x \in reads : \A y \in reads : x <= y)
       ELSE None

GetTokenReturns(usable(_)) ==
    op = "authManager" =>
        \A i \in 1..Len(authLog) :
            authLog[i].call = "getToken" => authLog[i].returned = ExpectedToken(i, usable)

\* C21 as stated: after setToken(t) getToken returns t, for every string t.
TokenCellAsStated == GetTokenReturns(IsSet)

\* C21: in any sequence of AuthManager operations, after setToken(t) with a
\* non-empty t getToken returns t, whatever HF_TOKEN holds, until the next
\* setToken or clearToken; after clearToken or setToken("") it returns the
\* non-empty HF_TOKEN value that the first getToken since then found, even
\* when HF_TOKEN changed afterwards; and null when there was none.
TokenCell == GetTokenReturns(Truthy)

\* A token read from HF_TOKEN is returned again after HF_TOKEN changed.
TokenCellWitness ==
    /\ op = "authManager"
    /\ Len(authLog) = 4
    /\ tokenSource = "env"
    /\ authLog[1] = AuthCall("env", Some("hf_a"), None)
    /\ authLog[2] = AuthCall("getToken", None, Some("hf_a"))
    /\ authLog[3] = AuthCall("env", Some("hf_b"), None)
    /\ authLog[4] = AuthCall("getToken", None, Some("hf_a"))

\* C22: when an attempt succeeds after j attempts that failed with retryable
\* errors (j <= maxRetries), withRetry returns the value of that attempt, the
\* operation was invoked exactly j + 1 times, and no failure reaches the
\* caller: nothing is raised, and uploadFile and validateRepository report
\* success without an error.
RetryThenSuccess ==
    retryOutcome = "returned" =>
        /\ attempt <= retryConfig.maxRetries
        /\ attempts = attempt + 1
        /\ response # None
        /\ rethrown = None
        /\ (attempt > 0 => ~shouldNotRetry(lastError))
        /\ (op = "uploadFile" =>
               /\ settled = "resolved"
               /\ The(result) = UploadSuccess(The(response)))
        /\ (op = "validateRepository" => settled = "resolved" /\ The(result) = TRUE)

RetryThenSuccessWitness ==
    /\ op = "uploadFile"
    /\ retryOutcome = "returned"
    /\ retryConfig.maxRetries = 2
    /\ attempt = 2
    /\ attempts = 3
    /\ lastError = JsError(MsgReset)
    /\ The(result).success
    /\ The(result).error = None

\* C23: after attempt n fails with a retryable error and n < maxRetries,
\* withRetry starts exactly one wait before attempt n + 1, of a duration d
\* with min(baseDelay * 2^n, maxDelay) <= d < min(baseDelay * 2^n, maxDelay)
\* + 1000; when withRetry has returned or thrown, the waits number one less
\* than the attempts, so none follows the last attempt.
RetryWaits ==
    LET ceiling == IF retryConfig.baseDelay * (2 ^ attempt) <= retryConfig.maxDelay
                     THEN retryConfig.baseDelay * (2 ^ attempt)
                     ELSE retryConfig.maxDelay
    IN /\ (pc = "retry_sleep" =>
              /\ attempt < retryConfig.maxRetries
              /\ attempts = attempt + 1
              /\ waits = attempts
              /\ ceiling <= sleepFor
              /\ sleepFor < ceiling + 1000)
       /\ (pc = "retry_call" => waits = attempt /\ attempts = attempt)
       /\ (pc # "retry_sleep" => sleepFor = 0)
       /\ (retryOutcome \in {"returned", "threw"} => waits = attempts - 1)

\* A wait at the ceiling: baseDelay * 2^n is above maxDelay.
RetryWaitsWitness ==
    /\ pc = "retry_sleep"
    /\ retryConfig.maxDelay < retryConfig.baseDelay
    /\ attempt = 0
    /\ waits = 1
    /\ sleepFor = retryConfig.maxDelay + 999

\* Batches whose remote call succeeded.
UploadedBatches == {b \in 1..Len(batchLog) : batchLog[b] = "uploaded"}

\* C24 as stated: the commitSha of a multi-file upload is the oid the last
\* successful batch call returned, also when that call returned none.
LastCommitAsStated ==
    (MultiDone /\ settled = "resolved" /\ UploadedBatches # {})
        => The(result).commitSha = The(oidLog[LastIndex(UploadedBatches)])

\* C24: the commitSha of a multi-file upload is the oid of the last successful
\* batch call whose response carried one (a later one overwrites an earlier
\* one); a response without an oid leaves the reference as it was, and the
\* result has no commitSha when no response carried one.
LastCommit ==
    (MultiDone /\ settled = "resolved") =>
        LET carried == {b \in UploadedBatches : The(oidLog[b]) # None}
        IN The(result).commitSha =
               IF carried = {} THEN None ELSE The(oidLog[LastIndex(carried)])

\* Two batches succeeded with different ids; the second is reported.
LastCommitWitness ==
    /\ MultiDone
    /\ settled = "resolved"
    /\ batchLog = <<"uploaded", "uploaded">>
    /\ The(oidLog[1]) # None
    /\ The(oidLog[2]) # None
    /\ oidLog[1] # oidLog[2]
    /\ The(result).commitSha = The(oidLog[2])

\* The step of the batch loop that finds no file of the current batch on disk.
BatchLeftEmpty ==
    /\ op = "uploadFiles"
    /\ pc = "batch_exists"
    /\ missingFiles' = missingFiles
    /\ \A p \in batchFileSet(batchIndex) : ~pathExists(p)

\* C25: when no file of a batch is left to send, the batch loop issues no
\* remote call for that batch and goes on to the next batch, or returns the
\* result after the last one.
EmptyBatchSkipped ==
    [][BatchLeftEmpty =>
          /\ remoteCalls' = remoteCalls
          /\ attempts' = attempts
          /\ batchLog' = Append(batchLog, "skipped")
          /\ batchIndex' = batchIndex + 1
          /\ IF batchIndex + 1 < totalBatches
               THEN pc' = "batch_exists" /\ settled' = "pending"
               ELSE pc' = "done" /\ settled' = "resolved"]_vars

\* The first batch was skipped and the second was sent.
EmptyBatchSkippedWitness ==
    /\ MultiDone
    /\ batchLog = <<"skipped", "uploaded">>
    /\ remoteCalls = 1
    /\ Len(failedFiles) = batchSize
    /\ The(result).filesUploaded = totalFiles - batchSize

\* C26: a file that cannot be opened when its batch is prepared does not
\* abort the batch: a batch is given up before its remote call only when
\* none of its files is on disk, and the files found missing are recorded.
FileFailureKeepsBatch ==
    op = "uploadFiles" =>
        \A b \in 1..Len(batchLog) :
            batchLog[b] = "aborted" =>
                \A p \in batchFileSet(b - 1) : ~pathExists(p)

\* C27: uploadFile called with a non-empty repoId that has not the shape
\* owner/name makes no remote call and resolves with success = false.
RepoShapeValidated ==
    (op = "uploadFile" /\ ~IsBlank(opts.repoId) /\ ~isValidRepoId(opts.repoId)) =>
        /\ remoteCalls = 0
        /\ (pc = "done" => settled = "resolved" /\ ~The(result).success)

\* Positions of the events of one kind in the log of processBatches.
GroupEvents(kind) == {k \in 1..Len(groupLog) : groupLog[k].event = kind}

GroupsDone == op = "processBatches" /\ pc = "done" /\ settled = "resolved"

\* C28: with a concurrency of 1 batches are handled one after the other, in
\* index order.  In uploadFiles every batch before the current one has run to
\* its end, retries and waits included, and the current one has not; in
\* processBatches with maxConcurrency = 1 no processor call starts while
\* another is in flight, and the call for batch j starts after the calls for
\* batches 0..j-1 have ended.
SequentialBatches ==
    /\ (op = "uploadFiles" /\ pc \in {"batch_exists", "batch_stat", "retry_call", "retry_sleep"}
           => Len(batchLog) = batchIndex /\ batchIndex < totalBatches)
    /\ (op = "processBatches" /\ batchOptions.maxConcurrency = 1
           => /\ Cardinality(inFlight) <= 1
              /\ \A k \in GroupEvents("start") :
                    /\ groupLog[k].inFlight = 0
                    /\ groupLog[k].batch = Cardinality({e \in GroupEvents("start") : e < k})
                    /\ \A j \in 0..(groupLog[k].batch - 1) :
                          \E e \in GroupEvents("end") : e < k /\ groupLog[e].batch = j)

SequentialBatchesWitness ==
    /\ GroupsDone
    /\ batchOptions.maxConcurrency = 1
    /\ batchOptions.delayBetweenBatches = 0
    /\ Len(groupLog) = 6
    /\ groupLog[4] = GroupEvent("end", 1, 2, 1)
    /\ groupLog[5] = GroupEvent("start", 2, 4, 0)
    /\ The(result) = <<0, 1, 2>>

\* C29: every processor call of a group is given the filesProcessed that
\* counts all files of the groups before it, and the counter moves only
\* when every call of the group has ended: while a group is started or
\* awaited it holds the files of the groups before it.
GroupAccumulator ==
    op = "processBatches" =>
        /\ \A k \in GroupEvents("start") :
              LET first == (groupLog[k].batch \div batchOptions.maxConcurrency)
                               * batchOptions.maxConcurrency
              IN groupLog[k].filesProcessed = first * batchOptions.batchSize
        /\ (pc \in {"group_start", "group_await"}
              => groupProcessed = groupIndex * batchOptions.batchSize)
        /\ (pc = "group_sleep"
              => /\ inFlight = {}
                 /\ groupProcessed = (groupIndex + batchOptions.maxConcurrency)
                                        * batchOptions.batchSize)
        /\ (GroupsDone => groupProcessed = batchOptions.files)

GroupAccumulatorWitness ==
    /\ GroupsDone
    /\ batchOptions.maxConcurrency = 2
    /\ batchOptions.files = 5
    /\ \E k \in GroupEvents("start") :
          /\ groupLog[k].batch = 1
          /\ groupLog[k].filesProcessed = 0
    /\ \E k \in GroupEvents("start") :
          /\ groupLog[k].batch = 2
          /\ groupLog[k].filesProcessed = 4
    /\ groupProcessed = 5

\* C30: processBatches has at most maxConcurrency processor calls in flight,
\* and it waits delayBetweenBatches once after every group but the last: with
\* a positive delay each first call of a later group directly follows a
\* sleep, each sleep is directly followed by such a call, and there is no
\* sleep otherwise.
GroupLimits ==
    op = "processBatches" =>
        /\ Cardinality(inFlight) <= batchOptions.maxConcurrency
        /\ \A k \in GroupEvents("start") : groupLog[k].inFlight < batchOptions.maxConcurrency
        /\ \A k \in GroupEvents("start") :
              (/\ groupLog[k].batch > 0
               /\ groupLog[k].batch % batchOptions.maxConcurrency = 0
               /\ batchOptions.delayBetweenBatches > 0)
                  => groupLog[k - 1].event = "sleep"
        /\ \A k \in GroupEvents("sleep") :
              /\ batchOptions.delayBetweenBatches > 0
              /\ groupLog[k].batch < groupBatches - 1
              /\ (k < Len(groupLog) => groupLog[k + 1].event = "start")
              /\ (k = Len(groupLog) => pc \in {"group_sleep", "group_start"})
        /\ (pc = "group_sleep" => groupLog[Len(groupLog)].event = "sleep")

GroupLimitsWitness ==
    /\ GroupsDone
    /\ batchOptions.maxConcurrency = 2
    /\ batchOptions.delayBetweenBatches = 100
    /\ batchOptions.files = 5
    /\ Len(groupLog) = 7
    /\ groupLog[2] = GroupEvent("start", 1, 0, 1)
    /\ groupLog[5] = GroupEvent("sleep", 1, 4, 0)
    /\ groupLog[7] = GroupEvent("end", 2, 4, 1)

\* C31: the failedFiles / filesProcessed accumulator of a multi-file upload is
\* written only by the control flow that drives the batch loop, never from
\* inside one of the promises that run together (the per-file callbacks of
\* Promise.all, the processor calls in flight).
AccumulatorSingleWriter ==
    op \in {"uploadFiles", "processBatches"} => mutatedFrom \subseteq {"loop"}

\* C32: after an interrupt (SIGINT / SIGTERM) that arrived while a download was
\* streamed to disk or waited for a retry, the process has exited without a
\* further attempt and no partially written destination file is left.
InterruptLeavesNoPartialFile ==
    pc = "exited" => dest # "partial"

\* The failure that reached the catch block of the finished operation already
\* carrying a taxonomy type: the ValidationError of an invalid input, or the
\* FileNotFound of uploadFile for a local file that does not exist (an option).
TypedFailure ==
    IF pc # "done" THEN None
    ELSE IF op = "uploadFile"
      THEN IF validateUploadInputs(opts) # None THEN validateUploadInputs(opts)
           ELSE IF opts.filePath \in startMissing
             THEN Some(createError("file_not_found", MsgLocalMissing \o PathName(opts.filePath)))
           ELSE None
    ELSE IF op = "downloadFile" THEN validateDownloadInputs(opts)
    ELSE IF op = "uploadFiles" /\ opts.filePaths # None THEN validateMultiUploadInputs(opts)
    ELSE None

\* C33: a failure that carries a taxonomy type when it reaches handleError is
\* returned unchanged: its type and its message are kept, and the failure
\* result carries that message, not one made from a new categorization.
TypedFailureReturnedUnchanged ==
    TypedFailure # None =>
        /\ handleError(The(TypedFailure)) = The(TypedFailure)
        /\ settled = "resolved"
        /\ The(result).error = Some(The(TypedFailure).message)

\* C34: when the download fails because the remote call was rejected with a 404,
\* the download command fails with "File not found: <filePath>"; when it was
\* rejected with a 401 or a 403, the command fails with "Access denied to the
\* repository or file".
DownloadFailureMessages ==
    (op = "download" /\ pc = "done" /\ transferCause # None) =>
        LET m == The(transferCause) IN
        /\ settled = "rejected"
        /\ (m = MsgNotFound
              => The(thrown).message = MsgFileNotFound \o PathName(opts.filePath))
        /\ (m \in {MsgUnauthorized, MsgForbidden}
              => The(thrown).message = MsgAccessDenied)

\* failedFiles of the result of the finished multi-file upload, empty when the
\* result has none.
ResultFailedFiles ==
    IF The(result).failedFiles = None THEN <<>> ELSE The(The(result).failedFiles)

\* C35: in every result of uploadFiles that passed input validation each input
\* path is accounted exactly once: no path is twice in failedFiles, and
\* filesUploaded + |failedFiles| = totalFiles, whatever files are missing and
\* whatever batches fail.
EveryPathAccountedOnce ==
    MultiDone =>
        /\ The(result).filesUploaded + Len(ResultFailedFiles) = The(result).totalFiles
        /\ Cardinality({ResultFailedFiles[j] : j \in 1..Len(ResultFailedFiles)})
              = Len(ResultFailedFiles)

\* C36: within one remote multi-file upload call distinct local files go under
\* distinct remote paths: no two entries of the payload of a batch carry the
\* same path.
DistinctRemotePaths ==
    (op = "uploadFiles" /\ pc = "retry_call")
        => Cardinality({batchPayload[i].path : i \in 1..Len(validFiles)}) = Len(validFiles)

\* C37: in downloadFile the retry executor covers the remote download call
\* only.  Once that call has returned a response it is not invoked again (no
\* further attempt, remote call or wait), and a failure while the response is
\* streamed to disk is not retried: unless a signal ends the process, the
\* cleanup unlink is made and the call resolves with success = false.
StreamFailureNotRetried ==
    [][(op = "downloadFile" /\ retryOutcome = "returned") =>
          /\ attempts' = attempts
          /\ remoteCalls' = remoteCalls
          /\ pc' \notin {"retry_call", "retry_sleep"}
          /\ ((pc = "stream_unlink" /\ pc' # "exited") =>
                 /\ unlinked' # "none"
                 /\ settled' = "resolved"
                 /\ ~The(result').success)]_vars

\* A download whose first call was retried, whose second call returned the
\* response, and whose stream then failed: two calls, the file removed.
StreamFailureNotRetriedWitness ==
    /\ op = "downloadFile"
    /\ pc = "done"
    /\ streamError # None
    /\ retryOutcome = "returned"
    /\ attempts = 2
    /\ remoteCalls = 2
    /\ totalBytes > 0
    /\ unlinked = "ok"
    /\ dest = "absent"
    /\ ~The(result).success

\* The stream of a download into a path that held a file before the call
\* failed after the write stream was opened, and the call has returned.
StreamFailedOverOldFile ==
    /\ op = "downloadFile"
    /\ settled # "pending"
    /\ streamError # None
    /\ The(streamError).message \in StreamErrors
    /\ destBefore = "old"

TerminalMark(message) ==
    \/ Includes(message, Str401) \/ Includes(message, Str403)
    \/ Includes(message, Str400) \/ Includes(message, Str422)
    \/ Includes(message, Str404)

\* C39 (as stated): every failure reported as AuthenticationError or as
\* FileNotFoundError was attempted exactly once by withRetry, and every failure
\* reported as RateLimitError or NetworkError was attempted maxRetries + 1 times.
ClassifiersAgreeAsStated ==
    TransportFailed =>
        LET type == handleError(lastError).type IN
        /\ (type \in {"auth_error", "file_not_found"} => attempts = 1)
        /\ (type \in {"rate_limit_error", "network_error"}
              => attempts = retryConfig.maxRetries + 1)

\* C39 (amended): a failure reported as FileNotFoundError ended at a terminal
\* error (404), and so did one reported as AuthenticationError unless it is
\* one by the word "authentication" alone, which was attempted maxRetries + 1
\* times; a failure reported as RateLimitError, PermissionError or NetworkError
\* was attempted maxRetries + 1 times unless its message carries 400 or 422,
\* which is terminal.  A terminal error is followed by no further attempt, so
\* a failure whose first attempt raised it was attempted exactly once.
ClassifiersAgree ==
    TransportFailed =>
        LET m == lastError.message
            type == handleError(lastError).type
        IN /\ (type = "file_not_found" => TerminalMark(m))
           /\ ((type = "auth_error" /\ ~TerminalMark(m))
                 => /\ Includes(m, StrAuthentication)
                    /\ attempts = retryConfig.maxRetries + 1)
           /\ ((type \notin {"auth_error", "file_not_found"} /\ ~TerminalMark(m))
                 => attempts = retryConfig.maxRetries + 1)
           /\ ((type \notin {"auth_error", "file_not_found"} /\ TerminalMark(m))
                 => Includes(m, Str400) \/ Includes(m, Str422))
           /\ (TerminalMark(m) => attempts = attempt + 1 /\ waits = attempt)
           /\ ((TerminalMark(m) /\ attempt = 0) => attempts = 1)

\* "authentication required" is reported as an authentication failure after
\* three attempts.
ClassifiersAgreeWitness ==
    /\ TransportFailed
    /\ op = "uploadFile"
    /\ lastError.message = MsgAuthWord
    /\ retryConfig.maxRetries = 2
    /\ attempts = 3
    /\ The(result).error = Some(MsgAuthFailed)

\* The batches that the processor was called with, by the order of the calls.
RECURSIVE startedFiles(_)
startedFiles(k) ==
    IF k > Len(groupLog) THEN <<>>
    ELSE (IF groupLog[k].event = "start" THEN batches[groupLog[k].batch + 1] ELSE <<>>)
         \o startedFiles(k + 1)

\* The end of a call of processBatches none of whose processor calls rejected.
AllBatchesProcessed ==
    LET N == batchOptions.files
        size == batchOptions.batchSize
        count == Ceil(N, size)
    IN /\ settled = "resolved"
       /\ inFlight = {}
       /\ Cardinality(GroupEvents("start")) = count
       /\ \A j \in 0..(count - 1) :
             /\ Cardinality({k \in GroupEvents("start") : groupLog[k].batch = j}) = 1
             /\ Cardinality({k \in GroupEvents("end") : groupLog[k].batch = j}) = 1
             /\ batches[j + 1] = [i \in 1..Min(size, N - j * size) |-> j * size + i]
       /\ startedFiles(1) = fileList(N)
       /\ The(result) = [j \in 1..count |-> j - 1]

\* C40: for every list of N files, batchSize >= 1 and maxConcurrency >= 1,
\* processBatches terminates when every processor call settles; when none
\* of them rejected, the processor has been called exactly once on each of the
\* ceil(N / batchSize) consecutive batches, whose concatenation is the input
\* list, and the results are returned in batch order.
ProcessBatchesTerminates ==
    (op = "processBatches")
        ~> (/\ op = "processBatches"
            /\ pc = "done"
            /\ (GroupEvents("rejected") = {} => AllBatchesProcessed))

\* Five files in batches of two, two at a time: three calls, three results.
ProcessBatchesTerminatesWitness ==
    /\ GroupsDone
    /\ batchOptions.files = 5
    /\ batchOptions.batchSize = 2
    /\ batchOptions.maxConcurrency = 2
    /\ GroupEvents("rejected") = {}
    /\ Cardinality(GroupEvents("start")) = 3
    /\ batches = <<(<<1, 2>>), (<<3, 4>>), (<<5>>)>>
    /\ The(result) = <<0, 1, 2>>

====
